---------------------------- MODULE Spec2Model ----------------------------
(***************************************************************************)
(* Upload orchestration of the Coohom client (src/coohom/coohom_api.py):   *)
(* CoohomUploader.check_upload_status, submit_parsed_model,                *)
(* poll_upload_status_until_complete and safe_submit_parsed_model, run     *)
(* against a remote platform that answers every request with any response  *)
(* of a bounded set.                                                       *)
(*                                                                         *)
(* Python values are tagged records: None, bool, int, str (a sequence of   *)
(* one-character strings), dict (a function from keys to values) and list. *)
(* A dict built by the client's own code is a TLA+ record whose DOMAIN is  *)
(* its key set, so that `'error' in result` is "error" \in DOMAIN result.  *)
(***************************************************************************)
EXTENDS Integers, Sequences, FiniteSets, TLC

(***************************************************************************)
(* Bounds                                                                  *)
(***************************************************************************)
\* largest status integer the remote platform reports (0..6 are documented)
MaxStatus == 7
\* largest max_poll_attempts / max_attempts a caller passes
MaxPollAttempts == 3
\* largest max_retries a caller passes to get_sts_credentials
MaxRetries == 3

(***************************************************************************)
(* Python values                                                           *)
(***************************************************************************)
PyNone == [t |-> "none"]
PyBool(b) == [t |-> "bool", b |-> b]
PyInt(n) == [t |-> "int", v |-> n]
PyStr(s) == [t |-> "str", s |-> s]
PyDict(kv) == [t |-> "dict", kv |-> kv]
PyList(l) == [t |-> "list", l |-> l]

\* the empty dict {}
EmptyKV == [k \in {} |-> PyNone]

\* string literals of the client's code, as character sequences
STR_unknown == <<"u", "n", "k", "n", "o", "w", "n">>
STR_invalid == <<"i", "n", "v", "a", "l", "i", "d">>
STR_submitted == <<"s", "u", "b", "m", "i", "t", "t", "e", "d">>

\* an f-string or literal message: the literal text and the value put in it
Fmt(text, arg) == [t |-> "fstr", text |-> text, arg |-> arg]

Digits == <<"0", "1", "2", "3", "4", "5", "6", "7", "8", "9">>

IsDigit(c) == \E i \in 1..10 : Digits[i] = c

DigitVal(c) == (CHOOSE i \in 1..10 : Digits[i] = c) - 1

RECURSIVE Strip(_)
\* str.strip() as int() applies it: leading and trailing blanks removed
Strip(s) ==
    IF s = <<>> THEN s
    ELSE IF Head(s) = " " THEN Strip(Tail(s))
    ELSE IF s[Len(s)] = " " THEN Strip(SubSeq(s, 1, Len(s) - 1))
    ELSE s

RECURSIVE DigitsValue(_)
\* value of a non-empty sequence of decimal digits
DigitsValue(s) ==
    IF Len(s) = 1 THEN DigitVal(s[1])
    ELSE 10 * DigitsValue(SubSeq(s, 1, Len(s) - 1)) + DigitVal(s[Len(s)])

AllDigits(s) == s # <<>> /\ \A i \in 1..Len(s) : IsDigit(s[i])

\* int(str): PyInt(n), or PyNone where Python raises ValueError
ParseInt(s) ==
    LET b == Strip(s) IN
    IF b # <<>> /\ Head(b) \in {"-", "+"}
    THEN IF AllDigits(Tail(b))
         THEN PyInt(IF Head(b) = "-" THEN 0 - DigitsValue(Tail(b))
                    ELSE DigitsValue(Tail(b)))
         ELSE PyNone
    ELSE IF AllDigits(b) THEN PyInt(DigitsValue(b)) ELSE PyNone

\* try: int(v) except (ValueError, TypeError): None
IntOrNone(v) ==
    CASE v.t = "int"  -> v
      [] v.t = "bool" -> PyInt(IF v.b THEN 1 ELSE 0)
      [] v.t = "str"  -> ParseInt(v.s)
      [] OTHER        -> PyNone

\* v == n for a Python value v and an integer literal n of the code
EqInt(v, n) == v.t = "int" /\ v.v = n

\* v in [n1, n2, ...]
InInts(v, ns) == v.t = "int" /\ v.v \in ns


\* dict.get(key, default) on a key-value function
Get(kv, key, default) == IF key \in DOMAIN kv THEN kv[key] ELSE default

(***************************************************************************)
(* The remote platform: what one HTTP exchange can produce                 *)
(***************************************************************************)
\* body of a response that is not JSON: response.json() raises ValueError
NotJson == [t |-> "notjson"]

\* requests raised instead of returning a response
Raised(exc) == [exc |-> exc]

HttpResponse(status_code, body) == [status_code |-> status_code, body |-> body]

\* the envelope {c, m, d}
Envelope(c, m, d) == PyDict([c |-> PyStr(c), m |-> PyStr(m), d |-> d])

OkResponse(d) == HttpResponse(200, Envelope(<<"0">>, <<"ok">>, d))

\* HTTP 200 with the platform-busy code
BusyResponse == HttpResponse(200, Envelope(<<"1", "0", "0", "0", "0", "4">>, <<"busy">>, PyNone))

\* HTTP 200 with another error code and no message
NoMessageErrorResponse == HttpResponse(200, PyDict([c |-> PyStr(<<"1">>), d |-> PyNone]))

ErrorResponses ==
    { Raised("Timeout"), HttpResponse(500, NotJson), HttpResponse(200, NotJson),
      BusyResponse, NoMessageErrorResponse }

StatusInts == 0..MaxStatus

\* values the platform may put in a status field
StatusValues ==
    { PyInt(n) : n \in StatusInts }
    \cup { PyStr(<<"3">>), PyStr(<<" ", "1">>), PyStr(<<"-", "1">>), PyStr(<<"x">>),
           PyBool(TRUE), PyNone }

\* values used in the nested payload shapes
NestedStatusValues == { PyInt(1), PyInt(3), PyStr(<<"3">>), PyNone }

StatusPayloads ==
    { PyDict([status |-> v]) : v \in StatusValues }
    \cup { PyDict([data |-> PyDict([status |-> v])]) : v \in NestedStatusValues }
    \cup { PyList(<<PyDict([status |-> v])>>) : v \in NestedStatusValues }
    \cup { PyNone, PyInt(3), PyDict(EmptyKV), PyList(<<>>), PyList(<<PyInt(3)>>),
           PyDict([error |-> PyStr(<<"x">>)]) }

\* every answer to a status request
StatusResponses == ErrorResponses \cup { OkResponse(d) : d \in StatusPayloads }

\* answers to the status requests of the polling loop
PollResponses ==
    { HttpResponse(500, NotJson), OkResponse(PyDict(EmptyKV)),
      OkResponse(PyDict([status |-> PyStr(<<"x">>)])),
      OkResponse(PyList(<<PyInt(3)>>)) }
    \cup { OkResponse(PyDict([status |-> PyInt(n)])) : n \in StatusInts }

\* answers to a submit request
SubmitResponses ==
    ErrorResponses
    \cup { OkResponse(PyNone), OkResponse(PyDict([id |-> PyInt(1)])),
           OkResponse(PyList(<<PyInt(1)>>)), OkResponse(PyDict([error |-> PyStr(<<"x">>)])),
           HttpResponse(200, PyList(<<>>)) }

\* str(e) of an exception
ExcText(exc) == PyStr(<<exc>>)

(***************************************************************************)
(* Signer and the authentication parameters                                *)
(***************************************************************************)
\* the credentials the uploader is constructed with
app_key == <<"k", "e", "y">>

app_secret == <<"s", "e", "c">>

\* str(n) of a natural number
RECURSIVE Decimal(_)
Decimal(n) == IF n < 10 THEN <<Digits[n + 1]>> ELSE Decimal(n \div 10) \o <<Digits[(n % 10) + 1]>>

\* urllib.parse.quote on letters, digits, '.', '_', '-', '/' (kept) and the
\* space (percent-encoded)
RECURSIVE quote(_)
quote(s) ==
    IF s = <<>> THEN <<>>
    ELSE (IF s[1] = " " THEN <<"%", "2", "0">> ELSE <<s[1]>>) \o quote(Tail(s))

\* hashlib.md5(...).hexdigest(): a digest that stands for its input
md5(s) == [t |-> "md5", of |-> s]

generate_signature(params) == md5(app_secret \o params.appkey.s \o params.timestamp.s)

\* str(int(time.time() * 1000)) on a clock that counts whole seconds
Timestamp(now) == Decimal(now * 1000)

\* the parameters of a status or parse request: appkey, timestamp, the task
\* id, and the signature added last
TaskParams(upload_task_id, now) ==
    LET params == [appkey |-> PyStr(app_key), timestamp |-> PyStr(Timestamp(now)),
                   upload_task_id |-> upload_task_id]
    IN [appkey |-> params.appkey, timestamp |-> params.timestamp,
        upload_task_id |-> params.upload_task_id, sign |-> generate_signature(params)]

\* auth_params of the submit request
AuthParams(now) ==
    LET auth_params == [appkey |-> PyStr(app_key), timestamp |-> PyStr(Timestamp(now))]
    IN [appkey |-> auth_params.appkey, timestamp |-> auth_params.timestamp,
        sign |-> generate_signature(auth_params)]

(***************************************************************************)
(* Endpoint operations                                                     *)
(***************************************************************************)
\* requests.get(url, params=params): the parameters go into the query string
StatusRequest(upload_task_id, now) ==
    [op |-> "status", method |-> "GET", url |-> "/global/commodity/upload/status",
     upload_task_id |-> upload_task_id, params |-> TaskParams(upload_task_id, now)]

\* the dict an endpoint returns for payload d of a c == '0' envelope
NormalizePayload(d, message) ==
    IF d.t = "dict" THEN d.kv
    ELSE [success |-> PyBool(TRUE), data |-> d, message |-> Fmt(message, PyNone)]

\* CoohomUploader.check_upload_status, given the exchange's outcome
check_upload_status(upload_task_id, response, now) ==
    LET request == StatusRequest(upload_task_id, now)
        exception(exc) ==
            [error |-> ExcText(exc), error_code |-> PyStr(<<"EXCEPTION">>), endpoint |-> "upload_status",
             task_id |-> upload_task_id, request_data |-> request]
    IN
    IF "exc" \in DOMAIN response THEN exception(response.exc)
    ELSE IF response.status_code = 200
    THEN LET data == response.body IN
         IF data = NotJson THEN exception("JSONDecodeError")
         ELSE IF data.t # "dict" THEN exception("AttributeError")
         ELSE IF Get(data.kv, "c", PyNone) = PyStr(<<"0">>)
         THEN NormalizePayload(Get(data.kv, "d", PyNone), "Upload status checked successfully")
         ELSE [error |-> Get(data.kv, "m", PyStr(<<"Unknown error">>)),
               error_code |-> Get(data.kv, "c", PyNone),
               full_response |-> data, endpoint |-> "upload_status",
               task_id |-> upload_task_id, request_data |-> request]
    ELSE [error |-> Fmt("HTTP Error: ", PyInt(response.status_code)),
          error_code |-> PyInt(response.status_code),
          response_text |-> response.body, endpoint |-> "upload_status",
          task_id |-> upload_task_id, request_data |-> request]


\* the JSON body of the submit request: a list of one item
SubmitBody(upload_task_id, model_name, pos, prod_cat, brand_cats, brand_good_code) ==
    << [uploadTaskId |-> upload_task_id, name |-> model_name, pos |-> pos,
        prodCat |-> prod_cat, location |-> 1,
        brandCats |-> IF brand_cats = PyNone
                      THEN PyList(<<PyStr(<<"3FO4K6E984C7">>)>>) ELSE brand_cats,
        brandGoodCode |-> brand_good_code] >>

\* requests.post(url, json=request_body, params=auth_params)
SubmitRequest(upload_task_id, model_name, pos, prod_cat, brand_cats, brand_good_code, now) ==
    [op |-> "submit", method |-> "POST", url |-> "/global/commodity/upload/submit",
     upload_task_id |-> upload_task_id,
     body |-> SubmitBody(upload_task_id, model_name, pos, prod_cat, brand_cats, brand_good_code),
     params |-> AuthParams(now)]

\* CoohomUploader.submit_parsed_model, given the exchange's outcome
submit_parsed_model(upload_task_id, model_name, pos, prod_cat, brand_cats, brand_good_code, response, now) ==
    LET request == SubmitRequest(upload_task_id, model_name, pos, prod_cat,
                                 brand_cats, brand_good_code, now)
        exception(exc) ==
            [error |-> ExcText(exc), error_code |-> PyStr(<<"EXCEPTION">>),
             endpoint |-> "submit_model", task_id |-> upload_task_id,
             model_name |-> model_name, pos |-> pos, prod_cat |-> prod_cat,
             request_data |-> request]
    IN
    IF "exc" \in DOMAIN response THEN exception(response.exc)
    ELSE IF response.status_code = 200
    THEN LET data == response.body IN
         IF data = NotJson
         THEN [error |-> Fmt("Invalid JSON response: ", ExcText("JSONDecodeError")),
               error_code |-> PyStr(<<"JSON_PARSE_ERROR">>),
               response_text |-> response.body, endpoint |-> "submit_model",
               task_id |-> upload_task_id, request_data |-> request]
         ELSE IF data.t # "dict" THEN exception("AttributeError")
         ELSE IF Get(data.kv, "c", PyNone) = PyStr(<<"0">>)
         THEN NormalizePayload(Get(data.kv, "d", PyNone), "Model submitted successfully")
         ELSE [error |-> Get(data.kv, "m", PyStr(<<"Unknown error">>)),
               error_code |-> Get(data.kv, "c", PyNone),
               full_response |-> data, endpoint |-> "submit_model",
               task_id |-> upload_task_id, model_name |-> model_name, pos |-> pos,
               prod_cat |-> prod_cat, request_data |-> request]
    ELSE [error |-> Fmt("HTTP Error: ", PyInt(response.status_code)),
          error_code |-> PyInt(response.status_code),
          response_text |-> response.body, endpoint |-> "submit_model",
          task_id |-> upload_task_id, model_name |-> model_name, pos |-> pos,
          prod_cat |-> prod_cat, request_data |-> request]

(***************************************************************************)
(* The credentials request                                                *)
(***************************************************************************)
\* the query parameters of the credentials request, signature included
StsParams(filename, now) ==
    LET params == [appkey |-> PyStr(app_key), timestamp |-> PyStr(Timestamp(now)),
                   file_name |-> PyStr(quote(filename))]
    IN [appkey |-> params.appkey, timestamp |-> params.timestamp,
        file_name |-> params.file_name, sign |-> generate_signature(params)]

StsRequest(filename, now) ==
    [op |-> "sts", method |-> "GET", url |-> "/global/commodity/upload/sts",
     params |-> StsParams(filename, now)]

\* the request echo of an error result
StsRequestData(filename, now) ==
    PyDict([url |-> PyStr(<<"/global/commodity/upload/sts">>),
            params |-> PyDict(StsParams(filename, now)),
            filename |-> PyStr(filename),
            timestamp |-> PyStr(Timestamp(now))])

STR_sts_credentials == <<"sts_credentials">>

STR_busy == <<"1", "0", "0", "0", "0", "4">>

\* mutant: the wait before a retry is always two seconds
wait_time_Constant(attempt) == 2

\* the wait before the retry that follows the attempt counted from 0
wait_time(attempt) == (attempt + 1) * 2

StsSleeps(seconds) == [kind |-> "sleep", seconds |-> seconds]

StsReturn(value) == [kind |-> "return", value |-> value]

\* the error result after the last attempt was answered with code '100004'
StsBusyResult(filename, max_retries, now, data) ==
    PyDict([error |-> Fmt("API Timeout after all retry attempts - Coohom servers are experiencing high load", PyNone),
            error_code |-> PyStr(STR_busy), full_response |-> data,
            endpoint |-> PyStr(STR_sts_credentials),
            retry_attempts |-> PyInt(max_retries),
            request_data |-> StsRequestData(filename, now)])

\* the value returned for a payload d of a successful answer
StsPayloadResult(d) ==
    IF d.t = "dict" THEN d
    ELSE PyDict([success |-> PyBool(TRUE), data |-> d,
                 message |-> Fmt("STS credentials obtained successfully", PyNone)])

\* one iteration of get_sts_credentials' loop on the answer to its request;
\* attempt counts from 0 as range(max_retries) does
StsIteration(filename, max_retries, attempt, now, response) ==
    LET request_data == StsRequestData(filename, now)
        failed(error, error_code) ==
            StsReturn(PyDict([error |-> error, error_code |-> PyStr(<<error_code>>),
                              endpoint |-> PyStr(STR_sts_credentials),
                              request_data |-> request_data]))
        unexpected(exc) == failed(ExcText(exc), "UNEXPECTED_ERROR")
    IN
    IF "exc" \in DOMAIN response
    THEN IF response.exc = "Timeout"
         THEN IF attempt < max_retries - 1 THEN StsSleeps(wait_time(attempt))
              ELSE StsReturn(PyDict([error |-> Fmt("Request timeout after all attempts", PyNone),
                                     error_code |-> PyStr(<<"TIMEOUT">>),
                                     endpoint |-> PyStr(STR_sts_credentials),
                                     request_data |-> request_data,
                                     retry_attempts |-> PyInt(max_retries)]))
         ELSE IF response.exc = "ConnectionError"
         THEN failed(Fmt("Connection error - Check your internet connection", PyNone),
                     "CONNECTION_ERROR")
         ELSE unexpected(response.exc)
    ELSE IF response.status_code = 200
    THEN LET data == response.body IN
         IF data = NotJson THEN unexpected("JSONDecodeError")
         ELSE IF data.t # "dict" THEN unexpected("AttributeError")
         ELSE IF Get(data.kv, "c", PyNone) = PyStr(<<"0">>)
         THEN StsReturn(StsPayloadResult(Get(data.kv, "d", PyNone)))
         ELSE IF Get(data.kv, "c", PyNone) = PyStr(STR_busy)
         THEN IF attempt < max_retries - 1 THEN StsSleeps(wait_time(attempt))
              ELSE StsReturn(StsBusyResult(filename, max_retries, now, data))
         ELSE StsReturn(PyDict([error |-> Get(data.kv, "m", PyStr(<<"Unknown error">>)),
                                error_code |-> Get(data.kv, "c", PyNone),
                                full_response |-> data,
                                endpoint |-> PyStr(STR_sts_credentials),
                                request_data |-> request_data]))
    ELSE StsReturn(PyDict([error |-> Fmt("HTTP Error: ", PyInt(response.status_code)),
                           error_code |-> PyInt(response.status_code),
                           response_text |-> response.body,
                           endpoint |-> PyStr(STR_sts_credentials),
                           request_data |-> request_data]))

(***************************************************************************)
(* The production client: CoohomUploader of coohom_api_production          *)
(***************************************************************************)
\* params[key] of a key the dict does not have
KeyError(key) == [raises |-> "KeyError", key |-> key]

Raises(value) == "raises" \in DOMAIN value

\* str(e) of a KeyError: the repr of the key
KeyErrorText(key) == PyStr(<<"'", key, "'">>)

\* generate_signature of the production client: the secret is read from params
production_generate_signature(params) ==
    IF "appsecret" \notin DOMAIN params THEN KeyError("appsecret")
    ELSE md5(params.appsecret.s \o params.appkey.s \o params.timestamp.s)

\* the query parameters of the production credentials request
ProductionStsParams(filename, now) ==
    LET params == [appkey |-> PyStr(app_key), timestamp |-> PyStr(Timestamp(now)),
                   appsecret |-> PyStr(app_secret), file_name |-> PyStr(quote(filename))]
    IN [appkey |-> params.appkey, timestamp |-> params.timestamp,
        appsecret |-> params.appsecret, file_name |-> params.file_name,
        sign |-> production_generate_signature(params)]

ProductionStsRequest(filename, now) ==
    [op |-> "production_sts", method |-> "GET", url |-> "/global/commodity/upload/sts",
     params |-> ProductionStsParams(filename, now)]

\* one iteration of the production get_sts_credentials on the answer to its
\* request: the payload d on success, None on every failure
ProductionStsIteration(max_retries, attempt, response) ==
    IF "exc" \in DOMAIN response
    THEN IF response.exc = "Timeout" /\ attempt < max_retries - 1
         THEN StsSleeps(wait_time(attempt))
         ELSE StsReturn(PyNone)
    ELSE IF response.status_code = 200
    THEN LET data == response.body IN
         IF data = NotJson THEN StsReturn(PyNone)
         ELSE IF data.t # "dict" THEN StsReturn(PyNone)
         ELSE IF Get(data.kv, "c", PyNone) = PyStr(<<"0">>)
         THEN StsReturn(Get(data.kv, "d", PyNone))
         ELSE IF Get(data.kv, "c", PyNone) = PyStr(STR_busy) /\ attempt < max_retries - 1
         THEN StsSleeps(wait_time(attempt))
         ELSE StsReturn(PyNone)
    ELSE StsReturn(PyNone)

\* the query parameters of the production status request, or the exception
\* raised while they are signed
ProductionStatusParams(upload_task_id, now) ==
    LET params == [appkey |-> PyStr(app_key), timestamp |-> PyStr(Timestamp(now)),
                   upload_task_id |-> upload_task_id]
        signature == production_generate_signature(params)
    IN IF Raises(signature) THEN signature
       ELSE [appkey |-> params.appkey, timestamp |-> params.timestamp,
             upload_task_id |-> params.upload_task_id, sign |-> signature]

ProductionStatusRequest(upload_task_id, now) ==
    [op |-> "production_status", method |-> "GET",
     url |-> "/global/commodity/upload/status",
     upload_task_id |-> upload_task_id,
     params |-> ProductionStatusParams(upload_task_id, now)]

\* check_upload_status of the production client; response is the outcome of
\* the exchange if the request gets sent
production_check_upload_status(upload_task_id, response, now) ==
    LET params == ProductionStatusParams(upload_task_id, now)
        failed(text) == PyDict([error |-> text])
    IN
    IF Raises(params) THEN failed(KeyErrorText(params.key))
    ELSE IF "exc" \in DOMAIN response THEN failed(ExcText(response.exc))
    ELSE IF response.status_code = 200
    THEN LET data == response.body IN
         IF data = NotJson THEN failed(ExcText("JSONDecodeError"))
         ELSE IF data.t # "dict" THEN failed(ExcText("AttributeError"))
         ELSE IF Get(data.kv, "c", PyNone) = PyStr(<<"0">>)
         THEN Get(data.kv, "d", PyNone)
         ELSE failed(Get(data.kv, "m", PyStr(<<"Unknown error">>)))
    ELSE failed(Fmt("HTTP Error: ", PyInt(response.status_code)))

(***************************************************************************)
(* Storage upload and parse request                                        *)
(***************************************************************************)
\* the keys upload_to_oss reads from the credentials with sts_data[...]
OssKeys == {"accessKeyId", "accessKeySecret", "securityToken", "bucket", "region", "filePath"}

\* bucket.put_object(file_path, file_data) with the credentials' bucket and path
OssRequest(sts_data) ==
    [op |-> "oss_put", method |-> "PUT", bucket |-> sts_data.kv.bucket,
     region |-> sts_data.kv.region, file_path |-> sts_data.kv.filePath]

\* sts_data[...] raises KeyError: upload_to_oss returns before any request
OssKeyError(sts_data) == \E k \in OssKeys : k \notin DOMAIN sts_data.kv

\* CoohomUploader.upload_to_oss when a credential is missing
upload_to_oss_KeyError(original_filename) ==
    [success |-> FALSE, error |-> ExcText("KeyError"),
     request_data |-> [filename |-> original_filename, exception_type |-> "KeyError"]]

\* CoohomUploader.upload_to_oss, given the outcome of put_object
upload_to_oss(sts_data, original_filename, response) ==
    IF "exc" \in DOMAIN response
    THEN [success |-> FALSE, error |-> ExcText(response.exc),
          request_data |-> [filename |-> original_filename, exception_type |-> response.exc]]
    ELSE IF response.status = 200
    THEN [success |-> TRUE, message |-> Fmt("File uploaded successfully to OSS", PyNone),
          oss_path |-> sts_data.kv.filePath, etag |-> response.etag]
    ELSE [success |-> FALSE,
          error |-> Fmt("Upload failed with status: ", PyInt(response.status)),
          request_data |-> [bucket |-> sts_data.kv.bucket, region |-> sts_data.kv.region,
                            file_path |-> sts_data.kv.filePath,
                            filename |-> original_filename]]

\* requests.post(url, data=params): the parameters go into the form body
ParseRequest(upload_task_id, now) ==
    [op |-> "parse", method |-> "POST", url |-> "/global/commodity/upload/create",
     upload_task_id |-> upload_task_id, data |-> TaskParams(upload_task_id, now)]

\* CoohomUploader.parse_uploaded_file, given the exchange's outcome
parse_uploaded_file(upload_task_id, response, now) ==
    LET request == ParseRequest(upload_task_id, now)
        exception(exc) ==
            [error |-> ExcText(exc), error_code |-> PyStr(<<"EXCEPTION">>), endpoint |-> "parse_file",
             task_id |-> upload_task_id, request_data |-> request]
    IN
    IF "exc" \in DOMAIN response THEN exception(response.exc)
    ELSE IF response.status_code = 200
    THEN LET data == response.body IN
         IF data = NotJson THEN exception("JSONDecodeError")
         ELSE IF data.t # "dict" THEN exception("AttributeError")
         ELSE IF Get(data.kv, "c", PyNone) = PyStr(<<"0">>)
         THEN NormalizePayload(Get(data.kv, "d", PyNone), "Parsing completed successfully")
         ELSE [error |-> Get(data.kv, "m", PyStr(<<"Unknown error">>)),
               error_code |-> Get(data.kv, "c", PyNone),
               full_response |-> data, endpoint |-> "parse_file",
               task_id |-> upload_task_id, request_data |-> request]
    ELSE [error |-> Fmt("HTTP Error: ", PyInt(response.status_code)),
          error_code |-> PyInt(response.status_code),
          response_text |-> response.body, endpoint |-> "parse_file",
          task_id |-> upload_task_id, request_data |-> request]

(***************************************************************************)
(* Status extraction shared by the poller and the orchestrator             *)
(***************************************************************************)
\* data[0].get('status') on a first element that is no dict: AttributeError
ExtractRaises(status_result) ==
    /\ "status" \notin DOMAIN status_result
    /\ "data" \in DOMAIN status_result
    /\ status_result.data.t = "list"
    /\ Len(status_result.data.l) > 0
    /\ status_result.data.l[1].t # "dict"

\* mutant: only a top-level 'status' is looked up
ExtractStatus_TopLevelOnly(status_result) ==
    IF "status" \in DOMAIN status_result THEN status_result.status ELSE PyNone

\* the probing of 'status', then 'data' as a dict, then 'data' as a list
ExtractStatus(status_result) ==
    IF "status" \in DOMAIN status_result THEN status_result.status
    ELSE IF "data" \in DOMAIN status_result
    THEN LET data == status_result.data IN
         IF data.t = "dict" THEN Get(data.kv, "status", PyNone)
         ELSE IF data.t = "list" /\ Len(data.l) > 0
         THEN Get(data.l[1].kv, "status", PyNone)
         ELSE PyNone
    ELSE PyNone

(***************************************************************************)
(* Status Poller: one iteration of the loop of                             *)
(* poll_upload_status_until_complete, from the answer to its status        *)
(* request up to the sleep, the return or the exception that ends it       *)
(***************************************************************************)
\* mutant: status 5 is left out of the terminal statuses
terminal_statuses_WithoutFive == {2, 4, 6}

terminal_statuses == {2, 4, 5, 6}

\* mutant: a failed status check is recorded under the number of the attempt before
FailedObservation_PreviousAttempt(attempt, now, status_result) ==
    [attempt |-> attempt - 1, timestamp |-> now, error |-> status_result.error]

\* a failed status check, as recorded in the history
FailedObservation(attempt, now, status_result) ==
    [attempt |-> attempt, timestamp |-> now, error |-> status_result.error]

\* a successful status check, as recorded in the history
StatusObservation(attempt, now, status, status_result) ==
    [attempt |-> attempt, timestamp |-> now, status |-> status, response |-> status_result]

\* mutant: a poll whose last status check failed reports success
PollFailedResult_Success(upload_task_id, max_attempts, attempt, status_history) ==
    [success |-> TRUE,
     error |-> Fmt("Failed to check status after {} attempts", PyInt(max_attempts)),
     status_history |-> status_history, final_attempt |-> attempt,
     task_id |-> upload_task_id]

\* the last attempt's status check failed
PollFailedResult(upload_task_id, max_attempts, attempt, status_history) ==
    [success |-> FALSE,
     error |-> Fmt("Failed to check status after {} attempts", PyInt(max_attempts)),
     status_history |-> status_history, final_attempt |-> attempt,
     task_id |-> upload_task_id]

\* mutant: an invalid status on the last attempt is reported as 'unknown'
PollInconclusiveResult_AlwaysUnknown(upload_task_id, max_attempts, attempt, status_history, status, status_result) ==
    [success |-> TRUE, status |-> PyStr(STR_unknown),
     message |-> Fmt("Status polling completed after {} attempts", PyInt(max_attempts)),
     status_history |-> status_history, final_attempt |-> attempt,
     task_id |-> upload_task_id, final_response |-> status_result]

\* the last attempt found no status ('unknown') or a non-numeric one ('invalid')
PollInconclusiveResult(upload_task_id, max_attempts, attempt, status_history, status, status_result) ==
    [success |-> TRUE, status |-> status,
     message |-> Fmt("Status polling completed after {} attempts", PyInt(max_attempts)),
     status_history |-> status_history, final_attempt |-> attempt,
     task_id |-> upload_task_id, final_response |-> status_result]

\* a terminal status was observed
PollTerminalResult(upload_task_id, attempt, status_history, current_status, status_result) ==
    [success |-> TRUE, status |-> current_status,
     message |-> Fmt("Upload reached terminal status {} after {} checks", current_status),
     status_history |-> status_history, final_attempt |-> attempt,
     task_id |-> upload_task_id, final_response |-> status_result,
     completed_early |-> TRUE]

\* mutant: exhausting the attempts is reported as a failure
PollExhaustedResult_Failure(upload_task_id, max_attempts, status_history, current_status, status_result) ==
    [success |-> FALSE, status |-> current_status,
     message |-> Fmt("Status polling completed after {} attempts without reaching terminal status",
                     PyInt(max_attempts)),
     status_history |-> status_history, final_attempt |-> max_attempts,
     task_id |-> upload_task_id, final_response |-> status_result,
     completed_early |-> FALSE]

\* the attempts are exhausted without a terminal status
PollExhaustedResult(upload_task_id, max_attempts, status_history, current_status, status_result) ==
    [success |-> TRUE, status |-> current_status,
     message |-> Fmt("Status polling completed after {} attempts without reaching terminal status",
                     PyInt(max_attempts)),
     status_history |-> status_history, final_attempt |-> max_attempts,
     task_id |-> upload_task_id, final_response |-> status_result,
     completed_early |-> FALSE]

PollReturn(status_history, value) ==
    [kind |-> "return", status_history |-> status_history, value |-> value]

PollSleeps(status_history) == [kind |-> "sleep", status_history |-> status_history]

\* mutant: a failed status check ends the poll at once, whatever the attempt
PollIteration_FailFast(upload_task_id, max_attempts, attempt, status_history, response, now) ==
    LET status_result == check_upload_status(upload_task_id, response, now)
        raw == ExtractStatus(status_result)
        current_status == IntOrNone(raw)
        observed(status) ==
            Append(status_history, StatusObservation(attempt, now, status, status_result))
        inconclusive(status) ==
            IF attempt = max_attempts
            THEN PollReturn(observed(status),
                            PollInconclusiveResult(upload_task_id, max_attempts, attempt,
                                                   observed(status), status, status_result))
            ELSE PollSleeps(observed(status))
    IN
    IF "error" \in DOMAIN status_result
    THEN LET failed == Append(status_history, FailedObservation(attempt, now, status_result))
         IN PollReturn(failed, PollFailedResult(upload_task_id, max_attempts, attempt, failed))
    ELSE IF ExtractRaises(status_result)
    THEN [kind |-> "raise", exc |-> "AttributeError", status_history |-> status_history]
    ELSE IF raw = PyNone THEN inconclusive(PyStr(STR_unknown))
    ELSE IF current_status = PyNone THEN inconclusive(PyStr(STR_invalid))
    ELSE IF current_status.v \in terminal_statuses
    THEN PollReturn(observed(current_status),
                    PollTerminalResult(upload_task_id, attempt, observed(current_status),
                                       current_status, status_result))
    ELSE IF attempt < max_attempts
    THEN PollSleeps(observed(current_status))
    ELSE PollReturn(observed(current_status),
                    PollExhaustedResult(upload_task_id, max_attempts,
                                        observed(current_status), current_status,
                                        status_result))

PollIteration(upload_task_id, max_attempts, attempt, status_history, response, now) ==
    LET status_result == check_upload_status(upload_task_id, response, now)
        raw == ExtractStatus(status_result)
        current_status == IntOrNone(raw)
        observed(status) ==
            Append(status_history, StatusObservation(attempt, now, status, status_result))
        inconclusive(status) ==
            IF attempt = max_attempts
            THEN PollReturn(observed(status),
                            PollInconclusiveResult(upload_task_id, max_attempts, attempt,
                                                   observed(status), status, status_result))
            ELSE PollSleeps(observed(status))
    IN
    IF "error" \in DOMAIN status_result
    THEN LET failed == Append(status_history, FailedObservation(attempt, now, status_result))
         IN IF attempt = max_attempts
            THEN PollReturn(failed,
                            PollFailedResult(upload_task_id, max_attempts, attempt, failed))
            ELSE PollSleeps(failed)
    ELSE IF ExtractRaises(status_result)
    THEN [kind |-> "raise", exc |-> "AttributeError", status_history |-> status_history]
    ELSE IF raw = PyNone THEN inconclusive(PyStr(STR_unknown))
    ELSE IF current_status = PyNone THEN inconclusive(PyStr(STR_invalid))
    ELSE IF current_status.v \in terminal_statuses
    THEN PollReturn(observed(current_status),
                    PollTerminalResult(upload_task_id, attempt, observed(current_status),
                                       current_status, status_result))
    ELSE IF attempt < max_attempts
    THEN PollSleeps(observed(current_status))
    ELSE PollReturn(observed(current_status),
                    PollExhaustedResult(upload_task_id, max_attempts,
                                        observed(current_status), current_status,
                                        status_result))

(***************************************************************************)
(* Safe-Submit Orchestrator: the decisions of safe_submit_parsed_model     *)
(***************************************************************************)
\* the except clause of safe_submit_parsed_model
SafeSubmitException(args, exc) ==
    [success |-> FALSE, error |-> ExcText(exc), error_code |-> "EXCEPTION",
     endpoint |-> "safe_submit_model", task_id |-> args.upload_task_id,
     model_name |-> args.model_name, pos |-> args.pos, prod_cat |-> args.prod_cat]

\* current_status: the extracted status converted to an int, or None
SafeSubmitCurrentStatus(status_result) ==
    LET raw == ExtractStatus(status_result)
    IN IF raw # PyNone THEN IntOrNone(raw) ELSE PyNone

\* mutant: a failed status check is reported as an unknown status
StatusCheckFailedResult_AsUnknown(args, status_result) ==
    [success |-> FALSE, error |-> Fmt("Status check failed: ", status_result.error),
     error_code |-> "UNKNOWN_STATUS", endpoint |-> "safe_submit_model",
     task_id |-> args.upload_task_id, status_check_result |-> status_result]

StatusCheckFailedResult(args, status_result) ==
    [success |-> FALSE, error |-> Fmt("Status check failed: ", status_result.error),
     error_code |-> "STATUS_CHECK_FAILED", endpoint |-> "safe_submit_model",
     task_id |-> args.upload_task_id, status_check_result |-> status_result]

\* mutant: the auto_poll-off failure reports the parse-failure code
ParsingNotCompleteResult_WrongCode(args, current_status) ==
    [success |-> FALSE,
     error |-> Fmt("Cannot submit with status {} (parsing not complete). Enable auto_poll or wait for status 3.",
                   current_status),
     error_code |-> "PARSING_FAILED", endpoint |-> "safe_submit_model",
     task_id |-> args.upload_task_id, current_status |-> current_status]

ParsingNotCompleteResult(args, current_status) ==
    [success |-> FALSE,
     error |-> Fmt("Cannot submit with status {} (parsing not complete). Enable auto_poll or wait for status 3.",
                   current_status),
     error_code |-> "PARSING_NOT_COMPLETE", endpoint |-> "safe_submit_model",
     task_id |-> args.upload_task_id, current_status |-> current_status]

\* mutant: status 2 is reported as parsing still in progress
ParsingFailedResult_AsNotComplete(args, current_status) ==
    [success |-> FALSE, status |-> PyInt(2),
     error |-> Fmt("Parsing failed (status 2) - cannot submit the model", PyNone),
     error_code |-> "PARSING_NOT_COMPLETE", endpoint |-> "safe_submit_model",
     task_id |-> args.upload_task_id, current_status |-> current_status]

ParsingFailedResult(args, current_status) ==
    [success |-> FALSE, status |-> PyInt(2),
     error |-> Fmt("Parsing failed (status 2) - cannot submit the model", PyNone),
     error_code |-> "PARSING_FAILED", endpoint |-> "safe_submit_model",
     task_id |-> args.upload_task_id, current_status |-> current_status]

\* mutant: the status-4 result lacks the submission_skipped flag
AlreadySubmittedResult_NoSkipFlag(args, current_status) ==
    [success |-> TRUE, status |-> PyInt(4),
     message |-> Fmt("Model already submitted (status 4)", PyNone),
     endpoint |-> "safe_submit_model", task_id |-> args.upload_task_id,
     current_status |-> current_status]

AlreadySubmittedResult(args, current_status) ==
    [success |-> TRUE, status |-> PyInt(4),
     message |-> Fmt("Model already submitted (status 4)", PyNone),
     endpoint |-> "safe_submit_model", task_id |-> args.upload_task_id,
     current_status |-> current_status, submission_skipped |-> TRUE]

\* mutant: status 6 is reported with the code of a parsing failure
OfflineAnalysisResult_AsParsingFailed(args, current_status) ==
    [success |-> FALSE,
     error |-> Fmt("Model analyzed offline (status 6) - cannot submit", PyNone),
     error_code |-> "PARSING_FAILED", endpoint |-> "safe_submit_model",
     task_id |-> args.upload_task_id, current_status |-> current_status]

OfflineAnalysisResult(args, current_status) ==
    [success |-> FALSE,
     error |-> Fmt("Model analyzed offline (status 6) - cannot submit", PyNone),
     error_code |-> "OFFLINE_ANALYSIS", endpoint |-> "safe_submit_model",
     task_id |-> args.upload_task_id, current_status |-> current_status]

UnknownStatusResult(args, status_result) ==
    [success |-> FALSE, error |-> Fmt("Unknown status - cannot proceed safely", PyNone),
     error_code |-> "UNKNOWN_STATUS", endpoint |-> "safe_submit_model",
     task_id |-> args.upload_task_id, status_result |-> status_result]

Return(value) == [kind |-> "return", value |-> value]

\* mutant: status 5 is handled with status 6, as a terminal failure
SafeSubmitAfterCheck_FiveIsTerminal(args, status_result) ==
    LET current_status == SafeSubmitCurrentStatus(status_result) IN
    IF "error" \in DOMAIN status_result
    THEN Return(StatusCheckFailedResult(args, status_result))
    ELSE IF ExtractRaises(status_result)
    THEN Return(SafeSubmitException(args, "AttributeError"))
    ELSE IF EqInt(current_status, 3) THEN [kind |-> "submit"]
    ELSE IF InInts(current_status, {0, 1})
    THEN IF args.auto_poll THEN [kind |-> "poll"]
         ELSE Return(ParsingNotCompleteResult(args, current_status))
    ELSE IF EqInt(current_status, 2)
    THEN Return(ParsingFailedResult(args, current_status))
    ELSE IF EqInt(current_status, 4)
    THEN Return(AlreadySubmittedResult(args, current_status))
    ELSE IF InInts(current_status, {5, 6})
    THEN Return(OfflineAnalysisResult(args, current_status))
    ELSE IF current_status = PyNone
    THEN Return(UnknownStatusResult(args, status_result))
    ELSE [kind |-> "submit"]

\* mutant: a status 0 or 1 is polled whether or not auto_poll is set
SafeSubmitAfterCheck_PollsRegardless(args, status_result) ==
    LET current_status == SafeSubmitCurrentStatus(status_result) IN
    IF "error" \in DOMAIN status_result
    THEN Return(StatusCheckFailedResult(args, status_result))
    ELSE IF ExtractRaises(status_result)
    THEN Return(SafeSubmitException(args, "AttributeError"))
    ELSE IF EqInt(current_status, 3) THEN [kind |-> "submit"]
    ELSE IF InInts(current_status, {0, 1})
    THEN [kind |-> "poll"]
    ELSE IF EqInt(current_status, 2)
    THEN Return(ParsingFailedResult(args, current_status))
    ELSE IF EqInt(current_status, 4)
    THEN Return(AlreadySubmittedResult(args, current_status))
    ELSE IF EqInt(current_status, 5) THEN [kind |-> "submit"]
    ELSE IF EqInt(current_status, 6)
    THEN Return(OfflineAnalysisResult(args, current_status))
    ELSE IF current_status = PyNone
    THEN Return(UnknownStatusResult(args, status_result))
    ELSE [kind |-> "submit"]

\* from the initial status check to the first return, poll or submit
SafeSubmitAfterCheck(args, status_result) ==
    LET current_status == SafeSubmitCurrentStatus(status_result) IN
    IF "error" \in DOMAIN status_result
    THEN Return(StatusCheckFailedResult(args, status_result))
    ELSE IF ExtractRaises(status_result)
    THEN Return(SafeSubmitException(args, "AttributeError"))
    ELSE IF EqInt(current_status, 3) THEN [kind |-> "submit"]
    ELSE IF InInts(current_status, {0, 1})
    THEN IF args.auto_poll THEN [kind |-> "poll"]
         ELSE Return(ParsingNotCompleteResult(args, current_status))
    ELSE IF EqInt(current_status, 2)
    THEN Return(ParsingFailedResult(args, current_status))
    ELSE IF EqInt(current_status, 4)
    THEN Return(AlreadySubmittedResult(args, current_status))
    ELSE IF EqInt(current_status, 5) THEN [kind |-> "submit"]
    ELSE IF EqInt(current_status, 6)
    THEN Return(OfflineAnalysisResult(args, current_status))
    ELSE IF current_status = PyNone
    THEN Return(UnknownStatusResult(args, status_result))
    ELSE [kind |-> "submit"]

AutoPollFailedResult(args, poll_result) ==
    [success |-> FALSE, error |-> Fmt("Auto-polling failed: ", poll_result.error),
     error_code |-> "AUTO_POLL_FAILED", endpoint |-> "safe_submit_model",
     task_id |-> args.upload_task_id, poll_result |-> poll_result]

TerminalAfterPollResult(args, poll_result, final_status) ==
    [success |-> TRUE, status |-> final_status,
     message |-> Fmt("Model reached terminal status {} during polling", final_status),
     endpoint |-> "safe_submit_model", task_id |-> args.upload_task_id,
     poll_result |-> poll_result, submission_skipped |-> TRUE]

UnexpectedStatusResult(args, poll_result, final_status) ==
    [success |-> FALSE,
     error |-> Fmt("Unexpected final status after polling: ", final_status),
     error_code |-> "UNEXPECTED_STATUS", endpoint |-> "safe_submit_model",
     task_id |-> args.upload_task_id, poll_result |-> poll_result]

\* mutant: after polling, status 5 is retried as in the initial table
SafeSubmitAfterPoll_RetryFive(args, poll_result) ==
    IF ~poll_result.success
    THEN Return(AutoPollFailedResult(args, poll_result))
    ELSE LET final_status == poll_result.status IN
         IF InInts(final_status, {3, 5}) THEN [kind |-> "submit"]
         ELSE IF InInts(final_status, {2, 4, 6})
         THEN Return(TerminalAfterPollResult(args, poll_result, final_status))
         ELSE Return(UnexpectedStatusResult(args, poll_result, final_status))

\* from the poller's return to the return or the submit
SafeSubmitAfterPoll(args, poll_result) ==
    IF ~poll_result.success
    THEN Return(AutoPollFailedResult(args, poll_result))
    ELSE LET final_status == poll_result.status IN
         IF EqInt(final_status, 3) THEN [kind |-> "submit"]
         ELSE IF InInts(final_status, {2, 4, 5, 6})
         THEN Return(TerminalAfterPollResult(args, poll_result, final_status))
         ELSE Return(UnexpectedStatusResult(args, poll_result, final_status))

\* the combined result returned after the submit
SafeSubmitAfterSubmit(args, status_result, submit_result) ==
    IF "error" \in DOMAIN submit_result
    THEN [success |-> FALSE,
          error |-> Fmt("Model submission failed: ", submit_result.error),
          submit_result |-> submit_result, endpoint |-> "safe_submit_model",
          task_id |-> args.upload_task_id, status_check_result |-> status_result]
    ELSE [success |-> TRUE, status |-> PyStr(STR_submitted),
          message |-> Fmt("Model submitted successfully through safe workflow", PyNone),
          endpoint |-> "safe_submit_model", task_id |-> args.upload_task_id,
          submit_result |-> submit_result, status_check_result |-> status_result]

(***************************************************************************)
(* Callers' inputs                                                         *)
(***************************************************************************)
TaskIds == { PyStr(<<"T", "1">>), PyStr(<<"T", "2">>) }

\* the defaults of safe_submit_parsed_model, and one caller-chosen metadata
ModelMeta ==
    { [model_name |-> "3D Model", pos |-> 99, prod_cat |-> 288, brand_cats |-> PyNone,
       brand_good_code |-> "code"],
      [model_name |-> "Chair", pos |-> 5, prod_cat |-> 300,
       brand_cats |-> PyList(<<PyStr(<<"B1">>)>>), brand_good_code |-> "gc1"] }

SafeSubmitCalls ==
    { [upload_task_id |-> t, model_name |-> m.model_name, pos |-> m.pos,
       prod_cat |-> m.prod_cat, brand_cats |-> m.brand_cats,
       brand_good_code |-> m.brand_good_code, auto_poll |-> a,
       max_poll_attempts |-> n, poll_interval_minutes |-> 2] :
      t \in TaskIds, m \in ModelMeta, a \in BOOLEAN, n \in 0..MaxPollAttempts }

\* file names: one of safe characters only, one with a space
Filenames == { <<"m", ".", "f", "b", "x">>, <<"a", " ", "b">> }

STR_T1 == <<"T", "1">>

\* a payload with every credential upload_to_oss reads, and the task id
FullCredentials(upload_task_id) ==
    PyDict([uploadTaskId |-> upload_task_id, accessKeyId |-> PyStr(<<"id">>),
            accessKeySecret |-> PyStr(<<"secret">>), securityToken |-> PyStr(<<"token">>),
            bucket |-> PyStr(<<"bucket">>), region |-> PyStr(<<"region">>),
            filePath |-> PyStr(<<"path">>)])

\* the same credentials without a task id
CredentialsWithoutTaskId ==
    PyDict([accessKeyId |-> PyStr(<<"id">>),
            accessKeySecret |-> PyStr(<<"secret">>), securityToken |-> PyStr(<<"token">>),
            bucket |-> PyStr(<<"bucket">>), region |-> PyStr(<<"region">>),
            filePath |-> PyStr(<<"path">>)])

\* payloads of a successful answer to the credentials request
StsPayloads ==
    { PyNone, PyList(<<>>), PyDict(EmptyKV),
      FullCredentials(PyStr(STR_T1)), FullCredentials(PyStr(<<>>)), CredentialsWithoutTaskId,
      PyDict([uploadTaskId |-> PyStr(STR_T1), accessKeyId |-> PyStr(<<"id">>)]) }

\* outcomes of put_object: a result with its status, or an exception of oss2
OssResponses ==
    { [status |-> 200, etag |-> PyStr(<<"etag">>)], [status |-> 403, etag |-> PyNone],
      Raised("ServerError") }

\* answers to a parse request
ParseResponses ==
    { HttpResponse(500, NotJson), NoMessageErrorResponse, Raised("Timeout"),
      OkResponse(PyNone), OkResponse(PyDict([status |-> PyInt(0)])),
      OkResponse(PyDict([error |-> PyStr(<<"x">>)])) }

\* model_config of handle_upload_process: none, or some of the keys
ModelConfigs == { PyNone, [model_name |-> "Chair", pos |-> 5] }

HandleUploadCalls == [filename : Filenames, model_config : ModelConfigs]

\* answers to the status requests and the submit request during
\* handle_upload_process
WorkflowStatusResponses ==
    { HttpResponse(500, NotJson) }
    \cup { OkResponse(PyDict([status |-> PyInt(n)])) : n \in {0, 1, 3, 4} }

WorkflowPollResponses ==
    { HttpResponse(500, NotJson) }
    \cup { OkResponse(PyDict([status |-> PyInt(n)])) : n \in {1, 2, 3} }

WorkflowSubmitResponses ==
    { NoMessageErrorResponse, OkResponse(PyNone), OkResponse(PyDict([error |-> PyStr(<<"x">>)])) }

\* answers to a credentials request
StsResponses ==
    ErrorResponses
    \cup { Raised("ConnectionError"), Raised("SSLError"),
           HttpResponse(200, Envelope(<<"5">>, <<"bad">>, PyNone)) }
    \cup { OkResponse(d) : d \in StsPayloads }

StsCalls == [filename : Filenames, max_retries : 0..MaxRetries]

\* a status value in the three payload shapes of the status endpoint:
\* {status}, {data: {status}} and {data: [{status}, ...]}
ShapedPayload(shape, v) ==
    CASE shape = "status" -> PyDict([status |-> v])
      [] shape = "data" -> PyDict([data |-> PyDict([status |-> v])])
      [] shape = "list" -> PyDict([data |-> PyList(<<PyDict([status |-> v]),
                                                      PyDict([status |-> PyInt(0)])>>)])

\* every status integer, as an int and as its decimal string, in every shape
ShapedStatusResponses ==
    { OkResponse(ShapedPayload(shape, v)) :
        shape \in {"status", "data", "list"},
        v \in { PyInt(n) : n \in StatusInts } \cup { PyStr(Decimal(n)) : n \in StatusInts } }

\* one call of the orchestrator and of the poller, of one or two attempts
ShapedSafeSubmitCalls ==
    { a \in SafeSubmitCalls :
        /\ a.upload_task_id = PyStr(STR_T1) /\ a.model_name = "Chair"
        /\ a.max_poll_attempts \in {1, 2} }

\* keyword arguments of a direct call of submit_parsed_model: the manual
\* workflow passes pos only when the user set one
SubmitKwargs ==
    { [upload_task_id |-> t, model_name |-> "Chair", prod_cat |-> 300,
       brand_cats |-> PyList(<<PyStr(<<"B1">>)>>), brand_good_code |-> "gc1"] : t \in TaskIds }
    \cup { [upload_task_id |-> t, model_name |-> "Chair", pos |-> 5, prod_cat |-> 300,
             brand_cats |-> PyList(<<PyStr(<<"B1">>)>>), brand_good_code |-> "gc1"] :
           t \in TaskIds }

\* answers to a parse request sent by a direct call of parse_uploaded_file
DirectParseResponses == ParseResponses \cup ErrorResponses

PollCalls ==
    { [upload_task_id |-> t, max_attempts |-> n, interval_minutes |-> i] :
      t \in TaskIds, n \in 0..MaxPollAttempts, i \in {1, 2} }

ShapedPollCalls ==
    { a \in PollCalls :
        /\ a.upload_task_id = PyStr(STR_T1) /\ a.interval_minutes = 1
        /\ a.max_attempts \in {1, 2} }

(***************************************************************************)
(* State                                                                   *)
(***************************************************************************)
VARIABLES
    pc,             \* where the client is: idle, waiting for an answer, sleeping, done
    fn,             \* the function the caller invoked
    args,           \* its arguments
    inflight,       \* the request sent and not yet answered
    status_result,  \* safe_submit_parsed_model: result of the initial status check
    poll_args,      \* poll_upload_status_until_complete: its parameters
    attempt,        \* poll_upload_status_until_complete: loop counter
    status_history, \* poll_upload_status_until_complete: observations so far
    poll_result,    \* safe_submit_parsed_model: what the poller returned
    result,         \* what the invoked function returned
    trace,          \* requests sent, answers with the endpoint's result, and sleeps, in order
    clock,          \* time.time(), in seconds
    wf,             \* handle_upload_process: its locals while it runs, else Unset
    session,        \* the manual workflow: st.session_state
    run             \* the manual workflow: the last click and what its operation returned

vars == <<pc, fn, args, inflight, status_result, poll_args, attempt, status_history,
          poll_result, result, trace, clock, wf, session, run>>

\* a local variable not assigned yet
Unset == [unset |-> TRUE]

\* st.session_state as main() initialises it; a key of workflow_status that is
\* not set holds Unset
InitialSession ==
    [current_step |-> 0,
     workflow_status |-> [sts |-> Unset, oss_upload |-> Unset, parse_file |-> Unset,
                          submission |-> Unset],
     upload_task_id |-> PyNone, uploaded_file_name |-> Unset, pos |-> Unset]

NoRequest == [op |-> "none"]

RequestEvent(request) == [ev |-> "request", request |-> request]

ResultEvent(op, response, value) ==
    [ev |-> "result", op |-> op, response |-> response, value |-> value]

SleepEvent(seconds) == [ev |-> "sleep", seconds |-> seconds]

Init ==
    /\ pc = "idle"
    /\ fn = "none"
    /\ args = Unset
    /\ inflight = NoRequest
    /\ status_result = Unset
    /\ poll_args = Unset
    /\ attempt = 0
    /\ status_history = <<>>
    /\ poll_result = Unset
    /\ result = Unset
    /\ trace = <<>>
    /\ clock = 0
    /\ wf = Unset
    /\ session = InitialSession
    /\ run = [minted |-> PyNone, button |-> "none", outcome |-> Unset]

(***************************************************************************)
(* Steps shared by the actions                                             *)
(***************************************************************************)
\* the function returns value
Finish(value, events) ==
    /\ pc' = "done"
    /\ result' = value
    /\ inflight' = NoRequest
    /\ trace' = trace \o events

\* an exception leaves poll_upload_status_until_complete called directly
Raise(exc, events) ==
    /\ pc' = "raised"
    /\ result' = [exception |-> exc]
    /\ inflight' = NoRequest
    /\ trace' = trace \o events

\* mutant: pos is not forwarded, the submit goes out with the default 99
SendSubmit_DefaultPos(events) ==
    LET request == SubmitRequest(args.upload_task_id, args.model_name, 99,
                                 args.prod_cat, args.brand_cats, args.brand_good_code, clock)
    IN /\ pc' = "submit_wait"
       /\ inflight' = request
       /\ trace' = trace \o events \o <<RequestEvent(request)>>
       /\ result' = result

\* the request of the submit step is sent
SendSubmit(events) ==
    LET request == SubmitRequest(args.upload_task_id, args.model_name, args.pos,
                                 args.prod_cat, args.brand_cats, args.brand_good_code, clock)
    IN /\ pc' = "submit_wait"
       /\ inflight' = request
       /\ trace' = trace \o events \o <<RequestEvent(request)>>
       /\ result' = result

\* mutant: the status request goes out twice, the second without waiting for
\* the answer to the first
SendPoll_Twice(params, events, now) ==
    LET request == StatusRequest(params.upload_task_id, now)
    IN /\ pc' = "poll_check"
       /\ inflight' = request
       /\ trace' = trace \o events \o <<RequestEvent(request), RequestEvent(request)>>
       /\ result' = result

\* mutant: the signature of a poll request also depends on the attempt
SendPoll_SignedPerAttempt(params, events, now) ==
    LET sent == StatusRequest(params.upload_task_id, now)
        sign == md5(sent.params.sign.of \o Decimal(attempt'))
        request == [sent EXCEPT !.params.sign = sign]
    IN /\ pc' = "poll_check"
       /\ inflight' = request
       /\ trace' = trace \o events \o <<RequestEvent(request)>>
       /\ result' = result

\* the status request of the next poll attempt is sent
SendPoll(params, events, now) ==
    LET request == StatusRequest(params.upload_task_id, now)
    IN /\ pc' = "poll_check"
       /\ inflight' = request
       /\ trace' = trace \o events \o <<RequestEvent(request)>>
       /\ result' = result

\* the poller ends: its caller goes on with poll_result, or the direct call returns
PollerReturns(value, events) ==
    IF fn = "safe_submit_parsed_model"
    THEN /\ poll_result' = value
         /\ LET next == SafeSubmitAfterPoll(args, value) IN
            IF next.kind = "submit" THEN SendSubmit(events)
            ELSE Finish(next.value, events)
    ELSE /\ poll_result' = poll_result
         /\ Finish(value, events)

PollerRaises(exc, events) ==
    /\ poll_result' = poll_result
    /\ IF fn = "safe_submit_parsed_model"
       THEN Finish(SafeSubmitException(args, exc), events)
       ELSE Raise(exc, events)

\* safe_submit_parsed_model is entered: its initial status request
SafeSubmitEnter(a, events) ==
    /\ fn' = "safe_submit_parsed_model"
    /\ args' = a
    /\ pc' = "safe_submit_check"
    /\ inflight' = StatusRequest(a.upload_task_id, clock)
    /\ trace' = trace \o events \o <<RequestEvent(StatusRequest(a.upload_task_id, clock))>>
    /\ UNCHANGED <<status_result, poll_args, attempt, status_history, poll_result, result>>

\* get_sts_credentials is entered: the first request, or None at once when
\* range(max_retries) is empty
StsEnter(a) ==
    /\ fn' = "get_sts_credentials"
    /\ args' = a
    /\ attempt' = 0
    /\ IF a.max_retries >= 1
       THEN /\ pc' = "sts_wait"
            /\ inflight' = StsRequest(a.filename, clock)
            /\ trace' = Append(trace, RequestEvent(StsRequest(a.filename, clock)))
            /\ result' = result
       ELSE Finish(PyNone, <<>>)
    /\ UNCHANGED <<status_result, poll_args, status_history, poll_result>>

(***************************************************************************)
(* Actions                                                                 *)
(***************************************************************************)
\* a caller invokes safe_submit_parsed_model: the initial status request
SafeSubmitCall(a) ==
    /\ pc = "idle"
    /\ SafeSubmitEnter(a, <<>>)
    /\ UNCHANGED <<clock, wf, session, run>>

\* the initial status check is answered: decide, then return, poll or submit
SafeSubmitStatusResponse(response) ==
    /\ pc = "safe_submit_check"
    /\ LET sr == check_upload_status(args.upload_task_id, response, clock)
           events == <<ResultEvent("status", response, sr)>>
           next == SafeSubmitAfterCheck(args, sr)
           params == [upload_task_id |-> args.upload_task_id,
                      max_attempts |-> args.max_poll_attempts,
                      interval_minutes |-> args.poll_interval_minutes]
       IN /\ status_result' = sr
          /\ IF next.kind = "poll"
             THEN /\ poll_args' = params
                  /\ status_history' = <<>>
                  /\ IF params.max_attempts >= 1
                     THEN /\ attempt' = 1
                          /\ SendPoll(params, events, clock)
                          /\ poll_result' = poll_result
                     ELSE /\ attempt' = attempt
                          /\ PollerRaises("UnboundLocalError", events)
             ELSE /\ UNCHANGED <<poll_args, attempt, status_history, poll_result>>
                  /\ IF next.kind = "submit" THEN SendSubmit(events)
                     ELSE Finish(next.value, events)
    /\ UNCHANGED <<fn, args, clock, wf, session, run>>

\* a caller invokes poll_upload_status_until_complete directly
PollCall(a) ==
    /\ pc = "idle"
    /\ fn' = "poll_upload_status_until_complete"
    /\ args' = a
    /\ poll_args' = a
    /\ status_history' = <<>>
    /\ IF a.max_attempts >= 1
       THEN /\ attempt' = 1
            /\ pc' = "poll_check"
            /\ inflight' = StatusRequest(a.upload_task_id, clock)
            /\ trace' = Append(trace, RequestEvent(StatusRequest(a.upload_task_id, clock)))
            /\ result' = result
       ELSE /\ attempt' = attempt
            /\ pc' = "raised"
            /\ result' = [exception |-> "UnboundLocalError"]
            /\ inflight' = NoRequest
            /\ trace' = trace
    /\ UNCHANGED <<status_result, poll_result, clock, wf, session, run>>

\* the status request of a poll attempt is answered
PollStatusResponse(response) ==
    /\ pc = "poll_check"
    /\ LET step == PollIteration(poll_args.upload_task_id, poll_args.max_attempts,
                                 attempt, status_history, response, clock)
           events == <<ResultEvent("status", response,
                                   check_upload_status(poll_args.upload_task_id, response, clock))>>
       IN /\ status_history' = step.status_history
          /\ CASE step.kind = "sleep" ->
                    /\ pc' = "poll_sleep"
                    /\ inflight' = NoRequest
                    /\ trace' = trace \o events
                    /\ UNCHANGED <<poll_result, result>>
               [] step.kind = "return" -> PollerReturns(step.value, events)
               [] step.kind = "raise" -> PollerRaises(step.exc, events)
    /\ UNCHANGED <<fn, args, status_result, poll_args, attempt, clock, wf, session, run>>

\* mutant: the sleep lasts interval_minutes seconds, not minutes
PollSleep_Seconds ==
    /\ pc = "poll_sleep"
    /\ LET wait_seconds == poll_args.interval_minutes IN
       /\ clock' = clock + wait_seconds
       /\ attempt' = attempt + 1
       /\ SendPoll(poll_args, <<SleepEvent(wait_seconds)>>, clock')
    /\ UNCHANGED <<fn, args, status_result, poll_args, status_history, poll_result, wf, session, run>>

\* time.sleep(interval_minutes * 60) ends: the next attempt's request
PollSleep ==
    /\ pc = "poll_sleep"
    /\ LET wait_seconds == poll_args.interval_minutes * 60 IN
       /\ clock' = clock + wait_seconds
       /\ attempt' = attempt + 1
       /\ SendPoll(poll_args, <<SleepEvent(wait_seconds)>>, clock')
    /\ UNCHANGED <<fn, args, status_result, poll_args, status_history, poll_result, wf, session, run>>

\* mutant: a failed submit is sent once more before the result is returned
SubmitResponse_Resend(response) ==
    /\ pc = "submit_wait"
    /\ LET submit_result ==
               submit_parsed_model(args.upload_task_id, args.model_name, args.pos,
                                   args.prod_cat, args.brand_cats, args.brand_good_code,
                                   response, clock)
           sent == Cardinality({ i \in 1..Len(trace) :
                                 trace[i].ev = "request" /\ trace[i].request.op = "submit" })
       IN IF "error" \in DOMAIN submit_result /\ sent < 2
          THEN /\ pc' = "submit_wait"
               /\ inflight' = inflight
               /\ trace' = trace \o <<ResultEvent("submit", response, submit_result),
                                      RequestEvent(inflight)>>
               /\ result' = result
          ELSE Finish(SafeSubmitAfterSubmit(args, status_result, submit_result),
                      <<ResultEvent("submit", response, submit_result)>>)
    /\ UNCHANGED <<fn, args, status_result, poll_args, attempt, status_history,
                   poll_result, clock, wf, session, run>>

\* the submit request is answered: the combined result
SubmitResponse(response) ==
    /\ pc = "submit_wait"
    /\ LET submit_result ==
               submit_parsed_model(args.upload_task_id, args.model_name, args.pos,
                                   args.prod_cat, args.brand_cats, args.brand_good_code,
                                   response, clock)
       IN Finish(SafeSubmitAfterSubmit(args, status_result, submit_result),
                 <<ResultEvent("submit", response, submit_result)>>)
    /\ UNCHANGED <<fn, args, status_result, poll_args, attempt, status_history,
                   poll_result, clock, wf, session, run>>

\* a caller invokes get_sts_credentials
StsCall(a) ==
    /\ pc = "idle"
    /\ StsEnter(a)
    /\ UNCHANGED <<clock, wf, session, run>>

\* the credentials request is answered
StsResponse(response) ==
    /\ pc = "sts_wait"
    /\ LET step == StsIteration(args.filename, args.max_retries, attempt, clock, response)
       IN IF step.kind = "sleep"
          THEN /\ pc' = "sts_sleep"
               /\ inflight' = NoRequest
               /\ trace' = Append(trace, ResultEvent("sts", response, PyNone))
               /\ result' = result
          ELSE Finish(step.value, <<ResultEvent("sts", response, step.value)>>)
    /\ UNCHANGED <<fn, args, status_result, poll_args, attempt, status_history,
                   poll_result, clock, wf, session, run>>

\* time.sleep(wait_time) ends: the request of the next attempt
StsBackoff ==
    /\ pc = "sts_sleep"
    /\ clock' = clock + wait_time(attempt)
    /\ attempt' = attempt + 1
    /\ pc' = "sts_wait"
    /\ inflight' = StsRequest(args.filename, clock')
    /\ trace' = trace \o <<SleepEvent(wait_time(attempt)),
                           RequestEvent(StsRequest(args.filename, clock'))>>
    /\ UNCHANGED <<fn, args, status_result, poll_args, status_history, poll_result, result, wf, session, run>>

\* a caller invokes check_upload_status
CheckStatusCall(upload_task_id) ==
    /\ pc = "idle"
    /\ fn' = "check_upload_status"
    /\ args' = [upload_task_id |-> upload_task_id]
    /\ pc' = "status_wait"
    /\ inflight' = StatusRequest(upload_task_id, clock)
    /\ trace' = Append(trace, RequestEvent(StatusRequest(upload_task_id, clock)))
    /\ UNCHANGED <<status_result, poll_args, attempt, status_history, poll_result, result,
                   clock, wf, session, run>>

\* mutant: check_upload_status sends its request again on code '100004'
CheckStatusResponse_RetryBusy(response) ==
    /\ pc = "status_wait"
    /\ LET value == check_upload_status(args.upload_task_id, response, clock)
       IN IF response = BusyResponse /\ Len(trace) < 3
          THEN /\ pc' = "status_wait"
               /\ inflight' = inflight
               /\ trace' = trace \o <<ResultEvent("status", response, value),
                                      RequestEvent(inflight)>>
               /\ result' = result
          ELSE Finish(value, <<ResultEvent("status", response, value)>>)
    /\ UNCHANGED <<fn, args, status_result, poll_args, attempt, status_history,
                   poll_result, clock, wf, session, run>>

\* its request is answered: it returns
CheckStatusResponse(response) ==
    /\ pc = "status_wait"
    /\ LET value == check_upload_status(args.upload_task_id, response, clock)
       IN Finish(value, <<ResultEvent("status", response, value)>>)
    /\ UNCHANGED <<fn, args, status_result, poll_args, attempt, status_history,
                   poll_result, clock, wf, session, run>>

\* a caller invokes parse_uploaded_file
ParseCall(upload_task_id) ==
    /\ pc = "idle"
    /\ fn' = "parse_uploaded_file"
    /\ args' = [upload_task_id |-> upload_task_id]
    /\ pc' = "parse_file_wait"
    /\ inflight' = ParseRequest(upload_task_id, clock)
    /\ trace' = Append(trace, RequestEvent(ParseRequest(upload_task_id, clock)))
    /\ UNCHANGED <<status_result, poll_args, attempt, status_history, poll_result, result,
                   clock, wf, session, run>>

\* its request is answered: it returns
ParseResponse(response) ==
    /\ pc = "parse_file_wait"
    /\ LET value == parse_uploaded_file(args.upload_task_id, response, clock)
       IN Finish(value, <<ResultEvent("parse", response, value)>>)
    /\ UNCHANGED <<fn, args, status_result, poll_args, attempt, status_history,
                   poll_result, clock, wf, session, run>>

\* pos of submit_parsed_model: the keyword argument, or the default
SubmitPos(kwargs) == IF "pos" \in DOMAIN kwargs THEN kwargs.pos ELSE 99

\* a caller invokes submit_parsed_model with keyword arguments
SubmitCall(kwargs) ==
    /\ pc = "idle"
    /\ fn' = "submit_parsed_model"
    /\ args' = kwargs
    /\ pc' = "submit_model_wait"
    /\ LET request == SubmitRequest(kwargs.upload_task_id, kwargs.model_name,
                                    SubmitPos(kwargs), kwargs.prod_cat, kwargs.brand_cats,
                                    kwargs.brand_good_code, clock)
       IN /\ inflight' = request
          /\ trace' = Append(trace, RequestEvent(request))
    /\ UNCHANGED <<status_result, poll_args, attempt, status_history, poll_result, result,
                   clock, wf, session, run>>

\* its request is answered: it returns
SubmitCallResponse(response) ==
    /\ pc = "submit_model_wait"
    /\ LET value == submit_parsed_model(args.upload_task_id, args.model_name,
                                        SubmitPos(args), args.prod_cat, args.brand_cats,
                                        args.brand_good_code, response, clock)
       IN Finish(value, <<ResultEvent("submit", response, value)>>)
    /\ UNCHANGED <<fn, args, status_result, poll_args, attempt, status_history,
                   poll_result, clock, wf, session, run>>

(***************************************************************************)
(* handle_upload_process: credentials, storage upload, parse, safe submit  *)
(***************************************************************************)
\* max_retries of get_sts_credentials when the caller passes none
default_max_retries == 3

\* max_poll_attempts and poll_interval_minutes handle_upload_process passes
workflow_max_poll_attempts == 5

workflow_poll_interval_minutes == 2

\* bool(v) of a value get_sts_credentials returns: None or a dict
Truthy(v) == v # PyNone /\ (v.t = "dict" => DOMAIN v.kv # {})

\* model_config.get(key, default)
ConfigGet(model_config, key, default) ==
    IF key \in DOMAIN model_config THEN model_config[key] ELSE default

\* the arguments handle_upload_process passes to safe_submit_parsed_model
WorkflowSubmitArgs(upload_task_id, model_config) ==
    IF model_config # PyNone
    THEN [upload_task_id |-> upload_task_id,
          model_name |-> ConfigGet(model_config, "model_name", "3D Model"),
          pos |-> ConfigGet(model_config, "pos", 99),
          prod_cat |-> ConfigGet(model_config, "prod_cat", 288),
          brand_cats |-> ConfigGet(model_config, "brand_cats",
                                   PyList(<<PyStr(<<"3FO4K6E984C7">>)>>)),
          brand_good_code |-> ConfigGet(model_config, "brand_good_code", "code"),
          auto_poll |-> TRUE, max_poll_attempts |-> workflow_max_poll_attempts,
          poll_interval_minutes |-> workflow_poll_interval_minutes]
    ELSE [upload_task_id |-> upload_task_id, model_name |-> "3D Model", pos |-> 99,
          prod_cat |-> 288, brand_cats |-> PyNone, brand_good_code |-> "code",
          auto_poll |-> TRUE, max_poll_attempts |-> workflow_max_poll_attempts,
          poll_interval_minutes |-> workflow_poll_interval_minutes]

\* the workflow w invokes the step named name
Invokes(w, name) == [w EXCEPT !.invoked = Append(@, name)]

\* the step the workflow w invoked last returned value
StepReturns(w, value) == [w EXCEPT !.returned = Append(@, value)]

\* handle_upload_process returns (success, upload_task_id), its steps as in w
WorkflowReturn(w, success, upload_task_id, events) ==
    /\ pc' = "done"
    /\ fn' = "handle_upload_process"
    /\ result' = [success |-> success, upload_task_id |-> upload_task_id]
    /\ wf' = [w EXCEPT !.stage = "returned"]
    /\ inflight' = NoRequest
    /\ trace' = trace \o events
    /\ UNCHANGED <<args, status_result, poll_args, attempt, status_history, poll_result,
                   clock>>

\* handle_upload_process is called with the file prepared: get_sts_credentials
HandleUploadCall(a) ==
    /\ UNCHANGED <<session, run>>
    /\ pc = "idle"
    /\ wf' = [stage |-> "credentials", filename |-> a.filename,
              model_config |-> a.model_config, sts_data |-> Unset,
              upload_task_id |-> Unset,
              invoked |-> <<"get_sts_credentials">>, returned |-> <<>>]
    /\ StsEnter([filename |-> a.filename, max_retries |-> default_max_retries])
    /\ UNCHANGED clock

\* get_sts_credentials returned: stop on a falsy value, else upload_to_oss,
\* which stops on a missing credential before it sends anything
HandleUploadAfterCredentials ==
    /\ UNCHANGED <<session, run>>
    /\ wf # Unset /\ wf.stage = "credentials"
    /\ pc = "done"
    /\ LET sts_data == result
           upload_task_id == Get(sts_data.kv, "uploadTaskId", PyNone)
           got == StepReturns(wf, sts_data)
           uploading == Invokes(got, "upload_to_oss")
       IN IF ~Truthy(sts_data) THEN WorkflowReturn(got, FALSE, PyNone, <<>>)
          ELSE IF OssKeyError(sts_data)
          THEN WorkflowReturn(StepReturns(uploading, upload_to_oss_KeyError(wf.filename)),
                              FALSE, PyNone, <<>>)
          ELSE /\ wf' = [uploading EXCEPT !.stage = "upload", !.sts_data = sts_data,
                                          !.upload_task_id = upload_task_id]
               /\ pc' = "oss_wait"
               /\ inflight' = OssRequest(sts_data)
               /\ trace' = Append(trace, RequestEvent(OssRequest(sts_data)))
               /\ UNCHANGED <<fn, args, status_result, poll_args, attempt, status_history,
                              poll_result, result, clock>>

\* put_object ended: stop unless the upload succeeded, else the parse request
HandleUploadOssResponse(response) ==
    /\ UNCHANGED <<session, run>>
    /\ pc = "oss_wait"
    /\ LET oss_result == upload_to_oss(wf.sts_data, wf.filename, response)
           events == <<ResultEvent("oss_put", response, oss_result)>>
           got == StepReturns(wf, oss_result)
       IN IF ~oss_result.success THEN WorkflowReturn(got, FALSE, PyNone, events)
          ELSE /\ wf' = [Invokes(got, "parse_uploaded_file") EXCEPT !.stage = "parse"]
               /\ pc' = "parse_wait"
               /\ inflight' = ParseRequest(wf.upload_task_id, clock)
               /\ trace' = trace \o events \o <<RequestEvent(ParseRequest(wf.upload_task_id, clock))>>
               /\ UNCHANGED <<fn, args, status_result, poll_args, attempt, status_history,
                              poll_result, result, clock>>

\* the parse request is answered: stop on an error, else safe_submit_parsed_model
HandleUploadParseResponse(response) ==
    /\ UNCHANGED <<session, run>>
    /\ pc = "parse_wait"
    /\ LET parse_result == parse_uploaded_file(wf.upload_task_id, response, clock)
           events == <<ResultEvent("parse", response, parse_result)>>
           got == StepReturns(wf, parse_result)
       IN IF "error" \in DOMAIN parse_result THEN WorkflowReturn(got, FALSE, PyNone, events)
          ELSE /\ wf' = [Invokes(got, "safe_submit_parsed_model") EXCEPT !.stage = "submit"]
               /\ SafeSubmitEnter(WorkflowSubmitArgs(wf.upload_task_id, wf.model_config),
                                  events)
               /\ UNCHANGED clock

\* safe_submit_parsed_model returned: (False, None) on an error, else
\* (True, upload_task_id)
HandleUploadAfterSubmit ==
    /\ UNCHANGED <<session, run>>
    /\ wf # Unset /\ wf.stage = "submit"
    /\ pc = "done"
    /\ LET submit_result == result
           got == StepReturns(wf, submit_result)
       IN IF "error" \in DOMAIN submit_result THEN WorkflowReturn(got, FALSE, PyNone, <<>>)
          ELSE WorkflowReturn(got, TRUE, wf.upload_task_id, <<>>)

Next ==
    \/ \E a \in SafeSubmitCalls : SafeSubmitCall(a)
    \/ \E response \in StatusResponses : SafeSubmitStatusResponse(response)
    \/ \E a \in PollCalls : PollCall(a)
    \/ \E response \in PollResponses : PollStatusResponse(response)
    \/ PollSleep
    \/ \E response \in SubmitResponses : SubmitResponse(response)
    \/ \E a \in StsCalls : StsCall(a)
    \/ \E response \in StsResponses : StsResponse(response)
    \/ StsBackoff
    \/ \E upload_task_id \in TaskIds : CheckStatusCall(upload_task_id)
    \/ \E response \in StatusResponses : CheckStatusResponse(response)
    \/ \E upload_task_id \in TaskIds : ParseCall(upload_task_id)
    \/ \E response \in DirectParseResponses : ParseResponse(response)
    \/ \E kwargs \in SubmitKwargs : SubmitCall(kwargs)
    \/ \E response \in SubmitResponses : SubmitCallResponse(response)

Spec == Init /\ [][Next]_vars

\* one run of handle_upload_process and of what it calls
NextWorkflow ==
    \/ \E a \in HandleUploadCalls : HandleUploadCall(a)
    \/ \E response \in StsResponses : StsResponse(response)
    \/ StsBackoff
    \/ HandleUploadAfterCredentials
    \/ \E response \in OssResponses : HandleUploadOssResponse(response)
    \/ \E response \in ParseResponses : HandleUploadParseResponse(response)
    \/ \E response \in WorkflowStatusResponses : SafeSubmitStatusResponse(response)
    \/ \E response \in WorkflowPollResponses : PollStatusResponse(response)
    \/ PollSleep
    \/ \E response \in WorkflowSubmitResponses : SubmitResponse(response)
    \/ HandleUploadAfterSubmit

SpecWorkflow == Init /\ [][NextWorkflow]_vars

\* the orchestrator and the poller against a platform that answers every
\* status request with a status in one of the three payload shapes
NextShapes ==
    \/ \E a \in ShapedSafeSubmitCalls : SafeSubmitCall(a)
    \/ \E response \in ShapedStatusResponses : SafeSubmitStatusResponse(response)
    \/ \E a \in ShapedPollCalls : PollCall(a)
    \/ \E response \in ShapedStatusResponses : PollStatusResponse(response)
    \/ PollSleep
    \/ \E response \in { OkResponse(PyNone), NoMessageErrorResponse } : SubmitResponse(response)

SpecShapes == Init /\ [][NextShapes]_vars

(***************************************************************************)
(* The manual workflow of app.py: one action per button, session state     *)
(* kept between the clicks                                                 *)
(***************************************************************************)
\* the smallest value of the sidebar's 'Max Polling Attempts' slider
sidebar_max_poll_attempts == 3

\* the default of the sidebar's 'Polling Interval (minutes)' slider
sidebar_poll_interval == 2

\* `if v:` of a task id: None and '' are falsy
NonEmptyId(v) == v # PyNone /\ (v.t = "str" => v.s # <<>>)

\* answers of the platform to the credentials request of Step 1
ManualStsResponses ==
    { Raised("Timeout"), Raised("ConnectionError"), HttpResponse(500, NotJson), BusyResponse,
      OkResponse(PyNone), OkResponse(CredentialsWithoutTaskId),
      OkResponse(FullCredentials(PyStr(<<>>))) }
    \cup { OkResponse(FullCredentials(t)) : t \in TaskIds }

\* answers to the status requests of the manual workflow
ManualStatusResponses ==
    { HttpResponse(500, NotJson), OkResponse(PyList(<<PyInt(3)>>)) }
    \cup { OkResponse(PyDict([status |-> PyInt(n)])) : n \in {1, 2, 3} }

\* answers to the submit request of Step 4
ManualSubmitResponses == { OkResponse(PyNone), NoMessageErrorResponse }

\* what get_sts_credentials can return with its default of three attempts:
\* the value of the attempt that returns, earlier attempts being retried
StsOutcomes(filename, now) ==
    { StsIteration(filename, default_max_retries, ar[1], now, ar[2]).value :
      ar \in { x \in (0..(default_max_retries - 1)) \X ManualStsResponses :
               StsIteration(filename, default_max_retries, x[1], now, x[2]).kind = "return" } }

\* the keyword arguments of the two submit buttons: pos only if it was given
ManualSubmitArgs ==
    [upload_task_id |-> session.upload_task_id, model_name |-> "Chair",
     pos |-> IF session.pos # PyNone THEN session.pos.v ELSE 99,
     prod_cat |-> 300, brand_cats |-> PyList(<<PyStr(<<"B1">>)>>),
     brand_good_code |-> "gc1"]

\* the name under which Step 2 uploads the file
filename_to_upload ==
    LET name == session.uploaded_file_name
        n == Len(name)
    IN IF n >= 4 /\ SubSeq(name, n - 3, n) = <<".", "z", "i", "p">> THEN name
       ELSE name \o <<".", "z", "i", "p">>

\* the click on button left the session as it was; its operation returned outcome
ClickKeeps(button, outcome) ==
    /\ session' = session
    /\ run' = [run EXCEPT !.button = button, !.outcome = outcome]

\* the session state moves on; the client's own state is not part of the page
ClickMoves(button, outcome, next) ==
    /\ session' = next
    /\ run' = [run EXCEPT !.button = button, !.outcome = outcome]

Idle ==
    /\ pc = "idle"
    /\ UNCHANGED <<pc, fn, args, inflight, status_result, poll_args, attempt, status_history,
                   poll_result, result, trace, clock, wf>>

\* 'Start Manual Step-by-Step Workflow'
ManualStart(filename, pos) ==
    /\ Idle
    /\ session' = [session EXCEPT !.current_step = 1,
                                  !.workflow_status = InitialSession.workflow_status,
                                  !.uploaded_file_name = filename, !.pos = pos]
    /\ run' = [minted |-> PyNone, button |-> "start", outcome |-> Unset]

\* Step 1, 'Get STS Credentials'
ManualGetCredentials ==
    /\ Idle
    /\ session.current_step = 1
    /\ \E sts_result \in StsOutcomes(session.uploaded_file_name, clock) :
           IF "error" \in DOMAIN sts_result.kv
           THEN ClickKeeps("get_sts_credentials", sts_result)
           ELSE /\ session' = [session EXCEPT !.workflow_status.sts = sts_result,
                                              !.current_step = 2]
                /\ run' = [minted |-> Get(sts_result.kv, "uploadTaskId", PyNone),
                           button |-> "get_sts_credentials", outcome |-> sts_result]

\* Step 2, 'Upload to OSS'
ManualUpload(response) ==
    /\ Idle
    /\ session.current_step = 2
    /\ session.workflow_status.sts # Unset
    /\ LET sts_data == session.workflow_status.sts
           upload_result == IF OssKeyError(sts_data)
                            THEN upload_to_oss_KeyError(filename_to_upload)
                            ELSE upload_to_oss(sts_data, filename_to_upload, response)
       IN IF "error" \in DOMAIN upload_result
          THEN ClickKeeps("upload_to_oss", upload_result)
          ELSE ClickMoves("upload_to_oss", upload_result,
                          [session EXCEPT !.workflow_status.oss_upload = upload_result,
                                          !.current_step = 3])

\* the task id Step 3 reads from the stored credentials
StoredTaskId == Get(session.workflow_status.sts.kv, "uploadTaskId", PyNone)

\* mutant: the parsed task id is not kept in the session
ManualParse_ForgetsTaskId(response) ==
    /\ Idle
    /\ session.current_step = 3
    /\ session.workflow_status.oss_upload # Unset
    /\ NonEmptyId(StoredTaskId)
    /\ LET upload_task_id == StoredTaskId
           parse_result == parse_uploaded_file(upload_task_id, response, clock)
       IN IF "error" \in DOMAIN parse_result
          THEN ClickKeeps("parse_uploaded_file", parse_result)
          ELSE ClickMoves("parse_uploaded_file", parse_result,
                          [session EXCEPT !.workflow_status.parse_file = parse_result,
                                          !.current_step = 4])

\* Step 3, 'Parse File'
ManualParse(response) ==
    /\ Idle
    /\ session.current_step = 3
    /\ session.workflow_status.oss_upload # Unset
    /\ NonEmptyId(StoredTaskId)
    /\ LET upload_task_id == StoredTaskId
           parse_result == parse_uploaded_file(upload_task_id, response, clock)
       IN IF "error" \in DOMAIN parse_result
          THEN ClickKeeps("parse_uploaded_file", parse_result)
          ELSE ClickMoves("parse_uploaded_file", parse_result,
                          [session EXCEPT !.upload_task_id = upload_task_id,
                                          !.workflow_status.parse_file = parse_result,
                                          !.current_step = 4])

\* mutant: a failed submit completes the workflow all the same
ManualSubmit_AdvancesOnError(response) ==
    /\ Idle
    /\ session.current_step = 4
    /\ NonEmptyId(session.upload_task_id)
    /\ LET a == ManualSubmitArgs
           submit_result == submit_parsed_model(a.upload_task_id, a.model_name, a.pos,
                                                a.prod_cat, a.brand_cats, a.brand_good_code,
                                                response, clock)
       IN ClickMoves("submit_parsed_model", submit_result,
                     [session EXCEPT !.workflow_status.submission = submit_result,
                                     !.current_step = 5])

\* Step 4, 'Submit Model'
ManualSubmit(response) ==
    /\ Idle
    /\ session.current_step = 4
    /\ NonEmptyId(session.upload_task_id)
    /\ LET a == ManualSubmitArgs
           submit_result == submit_parsed_model(a.upload_task_id, a.model_name, a.pos,
                                                a.prod_cat, a.brand_cats, a.brand_good_code,
                                                response, clock)
       IN IF "error" \in DOMAIN submit_result
          THEN ClickKeeps("submit_parsed_model", submit_result)
          ELSE ClickMoves("submit_parsed_model", submit_result,
                          [session EXCEPT !.workflow_status.submission = submit_result,
                                          !.current_step = 5])

\* Step 4, 'Safe Submit', with the sidebar's polling settings:
\* safe_submit_parsed_model is entered
ManualSafeSubmit(auto_poll) ==
    /\ pc = "idle"
    /\ session.current_step = 4
    /\ NonEmptyId(session.upload_task_id)
    /\ LET a == ManualSubmitArgs IN
       SafeSubmitEnter([upload_task_id |-> a.upload_task_id, model_name |-> a.model_name,
                        pos |-> a.pos, prod_cat |-> a.prod_cat,
                        brand_cats |-> a.brand_cats, brand_good_code |-> a.brand_good_code,
                        auto_poll |-> auto_poll,
                        max_poll_attempts |-> sidebar_max_poll_attempts,
                        poll_interval_minutes |-> sidebar_poll_interval], <<>>)
    /\ run' = [run EXCEPT !.button = "safe_submit_parsed_model", !.outcome = Unset]
    /\ UNCHANGED <<clock, wf, session>>

\* safe_submit_parsed_model returned to the 'Safe Submit' handler; nothing of
\* the call but its result outlives it, and time is counted from the next click
ManualAfterSafeSubmit ==
    /\ pc = "done"
    /\ run.button = "safe_submit_parsed_model"
    /\ LET safe_result == result IN
       /\ run' = [run EXCEPT !.outcome = safe_result]
       /\ session' = IF safe_result.success
                     THEN [session EXCEPT !.workflow_status.submission = safe_result,
                                          !.current_step = 5]
                     ELSE session
    /\ pc' = "idle"
    /\ fn' = "none"
    /\ args' = Unset
    /\ inflight' = NoRequest
    /\ status_result' = Unset
    /\ poll_args' = Unset
    /\ attempt' = 0
    /\ status_history' = <<>>
    /\ poll_result' = Unset
    /\ result' = Unset
    /\ trace' = <<>>
    /\ clock' = 0
    /\ wf' = wf

\* the page offers a 'Back to Step target' button
BackOffered(target) ==
    CASE target = 1 ->
             \/ session.current_step = 2 /\ session.workflow_status.sts = Unset
             \/ /\ session.current_step = 3
                /\ session.workflow_status.oss_upload # Unset
                /\ ~NonEmptyId(StoredTaskId)
      [] target = 2 -> session.current_step = 3 /\ session.workflow_status.oss_upload = Unset
      [] target = 3 -> session.current_step = 4 /\ ~NonEmptyId(session.upload_task_id)
      [] OTHER -> FALSE

\* 'Back to Step 1', 'Back to Step 2', 'Back to Step 3'
ManualBack(target) ==
    /\ Idle
    /\ BackOffered(target)
    /\ ClickMoves("back", Unset, [session EXCEPT !.current_step = target])

\* what both reset buttons do
ResetSession(button) ==
    /\ session' = [InitialSession EXCEPT !.pos = session.pos]
    /\ run' = [minted |-> PyNone, button |-> button, outcome |-> Unset]

\* Step 5, 'Start New Workflow'
ManualStartNew ==
    /\ Idle
    /\ session.current_step = 5
    /\ ResetSession("start_new")

\* 'Reset Entire Workflow', offered while a workflow is under way
ManualReset ==
    /\ Idle
    /\ session.current_step > 0
    /\ ResetSession("reset")

\* Status Monitor, 'Check Current Status' of the session's task id
ManualCheckStatus(response) ==
    /\ Idle
    /\ NonEmptyId(session.upload_task_id)
    /\ ClickKeeps("check_upload_status",
                  [request |-> StatusRequest(session.upload_task_id, clock),
                   status_result |-> check_upload_status(session.upload_task_id, response,
                                                         clock)])

NextManual ==
    \/ \E pos \in {PyNone, PyInt(5)} : ManualStart(<<"m", ".", "f", "b", "x">>, pos)
    \/ ManualGetCredentials
    \/ \E response \in OssResponses : ManualUpload(response)
    \/ \E response \in ParseResponses : ManualParse(response)
    \/ \E response \in ManualSubmitResponses : ManualSubmit(response)
    \/ \E auto_poll \in BOOLEAN : ManualSafeSubmit(auto_poll)
    \/ \E response \in ManualStatusResponses : SafeSubmitStatusResponse(response)
    \/ \E response \in ManualStatusResponses : PollStatusResponse(response)
    \/ PollSleep
    \/ \E response \in ManualSubmitResponses : SubmitResponse(response)
    \/ ManualAfterSafeSubmit
    \/ \E target \in 1..3 : ManualBack(target)
    \/ ManualStartNew
    \/ ManualReset
    \/ \E response \in ManualStatusResponses : ManualCheckStatus(response)

SpecManual == Init /\ [][NextManual]_vars

(***************************************************************************)
(* The operations of the production client                                 *)
(***************************************************************************)
\* a caller invokes get_sts_credentials of the production client
ProductionStsCall(a) ==
    /\ pc = "idle"
    /\ fn' = "production.get_sts_credentials"
    /\ args' = a
    /\ attempt' = 0
    /\ IF a.max_retries >= 1
       THEN /\ pc' = "production_sts_wait"
            /\ inflight' = ProductionStsRequest(a.filename, clock)
            /\ trace' = Append(trace, RequestEvent(ProductionStsRequest(a.filename, clock)))
            /\ result' = result
       ELSE Finish(PyNone, <<>>)
    /\ UNCHANGED <<status_result, poll_args, status_history, poll_result, clock, wf, session,
                   run>>

\* its request is answered
ProductionStsResponse(response) ==
    /\ pc = "production_sts_wait"
    /\ LET step == ProductionStsIteration(args.max_retries, attempt, response)
       IN IF step.kind = "sleep"
          THEN /\ pc' = "production_sts_sleep"
               /\ inflight' = NoRequest
               /\ trace' = Append(trace, ResultEvent("production_sts", response, PyNone))
               /\ result' = result
          ELSE Finish(step.value, <<ResultEvent("production_sts", response, step.value)>>)
    /\ UNCHANGED <<fn, args, status_result, poll_args, attempt, status_history,
                   poll_result, clock, wf, session, run>>

\* time.sleep(wait_time) ends: the request of the next attempt
ProductionStsBackoff ==
    /\ pc = "production_sts_sleep"
    /\ clock' = clock + wait_time(attempt)
    /\ attempt' = attempt + 1
    /\ pc' = "production_sts_wait"
    /\ inflight' = ProductionStsRequest(args.filename, clock')
    /\ trace' = trace \o <<SleepEvent(wait_time(attempt)),
                           RequestEvent(ProductionStsRequest(args.filename, clock'))>>
    /\ UNCHANGED <<fn, args, status_result, poll_args, status_history, poll_result, result,
                   wf, session, run>>

\* check_upload_status of the production client, from the call to the return:
\* the request is sent, and answered by response, if its parameters get signed
ProductionCheckStatus(upload_task_id, response) ==
    /\ pc = "idle"
    /\ fn' = "production.check_upload_status"
    /\ args' = [upload_task_id |-> upload_task_id]
    /\ LET request == ProductionStatusRequest(upload_task_id, clock)
           value == production_check_upload_status(upload_task_id, response, clock)
       IN IF Raises(request.params) THEN Finish(value, <<>>)
          ELSE Finish(value, <<RequestEvent(request),
                               ResultEvent("production_status", response, value)>>)
    /\ UNCHANGED <<status_result, poll_args, attempt, status_history, poll_result, clock, wf,
                   session, run>>

\* the requests of both clients: every endpoint operation called directly
NextClients ==
    \/ \E a \in StsCalls : StsCall(a)
    \/ \E response \in StsResponses : StsResponse(response)
    \/ StsBackoff
    \/ \E upload_task_id \in TaskIds : CheckStatusCall(upload_task_id)
    \/ \E response \in StatusResponses : CheckStatusResponse(response)
    \/ \E upload_task_id \in TaskIds : ParseCall(upload_task_id)
    \/ \E response \in DirectParseResponses : ParseResponse(response)
    \/ \E kwargs \in SubmitKwargs : SubmitCall(kwargs)
    \/ \E response \in SubmitResponses : SubmitCallResponse(response)
    \/ \E a \in StsCalls : ProductionStsCall(a)
    \/ \E response \in StsResponses : ProductionStsResponse(response)
    \/ ProductionStsBackoff
    \/ \E upload_task_id \in TaskIds, response \in StatusResponses :
           ProductionCheckStatus(upload_task_id, response)

SpecClients == Init /\ [][NextClients]_vars

(***************************************************************************)
(* What a run did, read from its trace                                     *)
(***************************************************************************)
\* positions of the requests sent to endpoint op
RequestsTo(op) ==
    { i \in 1..Len(trace) : trace[i].ev = "request" /\ trace[i].request.op = op }

NumSubmitCalls == Cardinality(RequestsTo("submit"))

NumStatusCalls == Cardinality(RequestsTo("status"))

NumSleeps == Cardinality({ i \in 1..Len(trace) : trace[i].ev = "sleep" })

\* the poller was entered
Polled == poll_args # Unset

SafeSubmitRuns == fn = "safe_submit_parsed_model"

\* safe_submit_parsed_model has the answer to its initial status request
InitialAnswered == SafeSubmitRuns /\ Len(trace) >= 2

InitialResponse == trace[2].response

SafeSubmitReturned == SafeSubmitRuns /\ pc = "done"

\* the response is HTTP 200 with a JSON envelope whose code is '0'
AnswersOk(response) ==
    /\ "exc" \notin DOMAIN response
    /\ response.status_code = 200
    /\ response.body # NotJson
    /\ response.body.t = "dict"
    /\ "c" \in DOMAIN response.body.kv
    /\ response.body.kv.c = PyStr(<<"0">>)
    /\ "d" \in DOMAIN response.body.kv

HasStatus(v) == v.t = "dict" /\ "status" \in DOMAIN v.kv

\* the payload carries a status field in one of the three documented shapes
CarriesStatus(d) ==
    \/ HasStatus(d)
    \/ d.t = "dict" /\ "data" \in DOMAIN d.kv /\ HasStatus(d.kv.data)
    \/ d.t = "dict" /\ "data" \in DOMAIN d.kv /\ d.kv.data.t = "list"
       /\ Len(d.kv.data.l) > 0 /\ HasStatus(d.kv.data.l[1])
    \/ d.t = "list" /\ Len(d.l) > 0 /\ HasStatus(d.l[1])

\* the status field of a payload that carries one
StatusField(d) ==
    IF HasStatus(d) THEN d.kv.status
    ELSE IF d.t = "list" THEN d.l[1].kv.status
    ELSE IF d.kv.data.t = "dict" THEN d.kv.data.kv.status
    ELSE d.kv.data.l[1].kv.status

\* the platform answers "status n", as an integer or as its decimal string
AnswersStatus(response, n) ==
    /\ AnswersOk(response)
    /\ CarriesStatus(response.body.kv.d)
    /\ StatusField(response.body.kv.d) \in { PyInt(n), PyStr(<<Digits[n + 1]>>) }

\* the initial status check was answered with one of the statuses ns
InitialStatusIn(ns) ==
    InitialAnswered /\ \E n \in ns : AnswersStatus(InitialResponse, n)

\* the body item of the one submit request sent
SubmittedItem == trace[CHOOSE i \in RequestsTo("submit") : TRUE].request.body[1]

\* the endpoint result of the one submit request answered
SubmitOutcome ==
    trace[CHOOSE i \in 1..Len(trace) : trace[i].ev = "result" /\ trace[i].op = "submit"].value

(***************************************************************************)
(* Claims                                                                  *)
(***************************************************************************)
\* the status the orchestrator observed last: the poller's final status when
\* the poller returned, else the current status of the initial check
LastObservedStatus ==
    IF poll_result # Unset THEN poll_result.status
    ELSE SafeSubmitCurrentStatus(status_result)

\* C1: safe_submit_parsed_model sends a submit request only if the status it
\* observed last (initial check, or the poller's final status) is 3 or 5,
\* whatever the platform answers, integers outside 0..6 included.
C1_SubmitOnlyWhenReady ==
    (SafeSubmitRuns /\ NumSubmitCalls > 0) => LastObservedStatus \in { PyInt(3), PyInt(5) }

PreconditionFailureCodes ==
    { "PARSING_NOT_COMPLETE", "PARSING_FAILED", "OFFLINE_ANALYSIS", "UNKNOWN_STATUS",
      "UNEXPECTED_STATUS", "STATUS_CHECK_FAILED", "AUTO_POLL_FAILED" }

FailedPrecondition ==
    /\ SafeSubmitReturned
    /\ ~result.success
    /\ "error_code" \in DOMAIN result
    /\ result.error_code \in PreconditionFailureCodes

\* C2: one run of safe_submit_parsed_model sends at most one submit request,
\* and none when it returns a failure with one of the seven precondition
\* error codes.
C2_AtMostOneSubmit ==
    SafeSubmitRuns =>
        /\ NumSubmitCalls <= 1
        /\ FailedPrecondition => NumSubmitCalls = 0

\* a run that polled and returned UNEXPECTED_STATUS
C2_Witness ==
    FailedPrecondition /\ result.error_code = "UNEXPECTED_STATUS" /\ NumStatusCalls > 1

\* C3: initial status 3: exactly one submit request, no polling, carrying the
\* caller's task id and model metadata; the result returned holds the submit
\* endpoint's result unchanged and success says whether that result is no error.
C3_ReadySubmitsOnce ==
    InitialStatusIn({3}) =>
        /\ ~Polled /\ NumStatusCalls = 1 /\ NumSleeps = 0
        /\ pc \in {"submit_wait", "done"}
        /\ NumSubmitCalls = 1
        /\ SubmittedItem.uploadTaskId = args.upload_task_id
        /\ SubmittedItem.name = args.model_name
        /\ SubmittedItem.pos = args.pos
        /\ SubmittedItem.prodCat = args.prod_cat
        /\ args.brand_cats # PyNone => SubmittedItem.brandCats = args.brand_cats
        /\ SubmittedItem.brandGoodCode = args.brand_good_code
        /\ pc = "done" =>
               /\ "submit_result" \in DOMAIN result
               /\ result.submit_result = SubmitOutcome
               /\ result.success = ("error" \notin DOMAIN SubmitOutcome)

\* initial status 3, caller-chosen metadata, submit answered with success
C3_Witness ==
    /\ InitialStatusIn({3})
    /\ pc = "done"
    /\ args.model_name = "Chair"
    /\ result.success

\* C4: initial status 4: success with submission_skipped, no submit request
\* and no polling.
C4_AlreadySubmittedSkips ==
    InitialStatusIn({4}) =>
        /\ pc = "done"
        /\ result.success
        /\ "submission_skipped" \in DOMAIN result /\ result.submission_skipped
        /\ NumSubmitCalls = 0
        /\ ~Polled /\ NumStatusCalls = 1 /\ NumSleeps = 0

C4_Witness == InitialStatusIn({4}) /\ pc = "done" /\ args.auto_poll

\* C5: initial status 2: failure PARSING_FAILED and no submit request, with
\* auto_poll on or off.
C5_ParsingFailedBlocks ==
    InitialStatusIn({2}) =>
        /\ pc = "done"
        /\ ~result.success
        /\ "error_code" \in DOMAIN result /\ result.error_code = "PARSING_FAILED"
        /\ NumSubmitCalls = 0

C5_Witness == InitialStatusIn({2}) /\ pc = "done" /\ args.auto_poll

\* the poller run by safe_submit_parsed_model returned success
AutoPolled == SafeSubmitRuns /\ poll_result # Unset /\ poll_result.success

\* C6: after auto-polling that succeeded, final status 3 leads to exactly one
\* submit request; 2, 4, 5 or 6 to no submit and a result with the poll result
\* and submission_skipped; anything else to UNEXPECTED_STATUS and no submit.
C6_BranchOnFinalStatus ==
    AutoPolled =>
        IF poll_result.status = PyInt(3)
        THEN pc \in {"submit_wait", "done"} /\ NumSubmitCalls = 1
        ELSE IF poll_result.status \in { PyInt(2), PyInt(4), PyInt(5), PyInt(6) }
        THEN /\ pc = "done" /\ NumSubmitCalls = 0
             /\ "poll_result" \in DOMAIN result /\ result.poll_result = poll_result
             /\ "submission_skipped" \in DOMAIN result /\ result.submission_skipped
        ELSE /\ pc = "done" /\ NumSubmitCalls = 0
             /\ ~result.success
             /\ "error_code" \in DOMAIN result
             /\ result.error_code = "UNEXPECTED_STATUS"

\* polling ended on status 3 and the submit was answered
C6_Witness ==
    /\ AutoPolled /\ InitialStatusIn({0, 1})
    /\ poll_result.status = PyInt(3)
    /\ pc = "done" /\ NumSubmitCalls = 1

\* C7: initial status 0 or 1 with auto_poll off: failure PARSING_NOT_COMPLETE
\* after exactly one status request, no polling, no sleep, no submit.
C7_NotCompleteWithoutAutoPoll ==
    (InitialStatusIn({0, 1}) /\ ~args.auto_poll) =>
        /\ pc = "done"
        /\ ~result.success
        /\ "error_code" \in DOMAIN result /\ result.error_code = "PARSING_NOT_COMPLETE"
        /\ NumStatusCalls = 1 /\ ~Polled /\ NumSleeps = 0 /\ NumSubmitCalls = 0

C7_Witness == InitialStatusIn({1}) /\ ~args.auto_poll /\ pc = "done"

\* the initial status request failed: transport exception, HTTP status other
\* than 200, undecodable body, or an envelope code other than '0'
InitialCheckFailed == InitialAnswered /\ ~AnswersOk(InitialResponse)

\* C8: a failed initial status check: failure STATUS_CHECK_FAILED and no
\* further request, neither poll nor submit.
C8_StatusCheckFailedShortCircuits ==
    InitialCheckFailed =>
        /\ pc = "done"
        /\ ~result.success
        /\ "error_code" \in DOMAIN result /\ result.error_code = "STATUS_CHECK_FAILED"
        /\ Len(trace) = 2 /\ NumStatusCalls = 1 /\ NumSubmitCalls = 0 /\ ~Polled

C8_Witness ==
    InitialCheckFailed /\ "exc" \in DOMAIN InitialResponse /\ pc = "done" /\ args.auto_poll

\* the value converts to no integer
NotConvertible(v) == v.t \notin {"int", "bool"} /\ (v.t = "str" => ParseInt(v.s) = PyNone)

\* the initial check succeeded with no status field in its payload, or with
\* one whose value converts to no integer
InitialIndeterminate ==
    /\ InitialAnswered
    /\ AnswersOk(InitialResponse)
    /\ LET d == InitialResponse.body.kv.d IN
       /\ ~(d.t = "dict" /\ "error" \in DOMAIN d.kv)
       /\ CarriesStatus(d) => NotConvertible(StatusField(d))

\* C9: an initial check that succeeds with an indeterminate status: failure
\* UNKNOWN_STATUS, no submit request and no polling.
C9_IndeterminateIsUnknownStatus ==
    InitialIndeterminate =>
        /\ pc = "done"
        /\ ~result.success
        /\ "error_code" \in DOMAIN result /\ result.error_code = "UNKNOWN_STATUS"
        /\ NumSubmitCalls = 0 /\ ~Polled

C11_OfflineAnalysisBlocks ==
    InitialStatusIn({6}) =>
        /\ pc = "done"
        /\ ~result.success
        /\ "error_code" \in DOMAIN result /\ result.error_code = "OFFLINE_ANALYSIS"
        /\ NumSubmitCalls = 0

C11_Witness == InitialStatusIn({6}) /\ pc = "done" /\ ~args.auto_poll

(***************************************************************************)
(* Claims on the status poller, run directly or by safe_submit_parsed_model *)
(***************************************************************************)
PollRunsDirectly == fn = "poll_upload_status_until_complete"

IsStatusRequest(e) == e.ev = "request" /\ e.request.op = "status"

IsPollEvent(e) ==
    \/ e.ev = "sleep"
    \/ IsStatusRequest(e)
    \/ e.ev = "result" /\ e.op = "status"

IsAnswer(e) == e.ev = "result"

\* the trace from the poll's first request on (safe_submit_parsed_model's own
\* initial check comes first in its trace)
PollSpan == SubSeq(trace, IF PollRunsDirectly THEN 1 ELSE 3, Len(trace))

\* what the poller did so far: its status requests, their answers, its sleeps
PollEvents == IF ~Polled THEN <<>> ELSE SelectSeq(PollSpan, IsPollEvent)

\* the answered attempts of the poll, in order
PollAnswers == SelectSeq(PollEvents, IsAnswer)

PollReturned ==
    /\ Polled
    /\ IF PollRunsDirectly THEN pc = "done" ELSE poll_result # Unset

\* the value the poller returned
PollOutcome == IF PollRunsDirectly THEN result ELSE poll_result

\* the answer e carries an integer status among ns
AnswerStatusIn(e, ns) == \E n \in ns : AnswersStatus(e.response, n)

AnswerStatus(e) == IntOrNone(StatusField(e.response.body.kv.d))

\* the status check answered by e failed
AnswerFailed(e) == "error" \in DOMAIN e.value

AnswerSucceeded(e) == AnswersOk(e.response) /\ ~AnswerFailed(e)

AnswerPayload(e) == e.response.body.kv.d

\* the check succeeded and its payload has no status value, or one that
\* converts to no integer
AnswerIndeterminate(e) ==
    /\ AnswerSucceeded(e)
    /\ CarriesStatus(AnswerPayload(e)) => NotConvertible(StatusField(AnswerPayload(e)))

\* the check succeeded and the status lookup found no value in its payload
AnswerStatusMissing(e) ==
    /\ AnswerSucceeded(e)
    /\ ~ExtractRaises(e.value)
    /\ \/ ~CarriesStatus(AnswerPayload(e))
       \/ StatusField(AnswerPayload(e)) = PyNone

\* the check succeeded with a status value that converts to no integer
AnswerStatusNonNumeric(e) ==
    /\ AnswerSucceeded(e)
    /\ CarriesStatus(AnswerPayload(e))
    /\ StatusField(AnswerPayload(e)) # PyNone
    /\ NotConvertible(StatusField(AnswerPayload(e)))

\* the same, of attempt k of the poll
AttemptStatusIn(k, ns) == AnswerStatusIn(PollAnswers[k], ns)

AttemptFailed(k) == AnswerFailed(PollAnswers[k])

AttemptStatusMissing(k) == AnswerStatusMissing(PollAnswers[k])

AttemptStatusNonNumeric(k) == AnswerStatusNonNumeric(PollAnswers[k])

\* where attempt k's answer stands among the poll events ev
AnswerPosition(ev, k) ==
    CHOOSE i \in 1..Len(ev) :
        IsAnswer(ev[i]) /\ Cardinality({ j \in 1..i : IsAnswer(ev[j]) }) = k

\* after attempt k's answer the poll sleeps and then sends the next request
GoesOnAfter(ev, k) ==
    LET i == AnswerPosition(ev, k)
    IN IF i = Len(ev) THEN pc = "poll_sleep"
       ELSE /\ Len(ev) >= i + 2
            /\ ev[i + 1].ev = "sleep"
            /\ IsStatusRequest(ev[i + 2])

\* C12: when attempt k is the first answered with a status in {2,4,5,6}, the
\* poller has returned success with that status, final_attempt = k and
\* completed_early = True, and attempt k's answer is the last thing the poll
\* did: no status request and no sleep follow it.
C12_TerminalStatusEndsPolling ==
    LET ev == PollEvents
        ans == SelectSeq(ev, IsAnswer)
    IN \A k \in 1..Len(ans) :
        (/\ AnswerStatusIn(ans[k], {2, 4, 5, 6})
         /\ \A j \in 1..(k - 1) : ~AnswerStatusIn(ans[j], {2, 4, 5, 6}))
        => /\ k <= poll_args.max_attempts
           /\ PollReturned
           /\ PollOutcome.success
           /\ "status" \in DOMAIN PollOutcome /\ PollOutcome.status = AnswerStatus(ans[k])
           /\ PollOutcome.final_attempt = k
           /\ "completed_early" \in DOMAIN PollOutcome /\ PollOutcome.completed_early
           /\ Len(ans) = k
           /\ ev[Len(ev)] = ans[k]

\* a poll of three attempts ended by a terminal status on the second
C12_Witness ==
    /\ PollRunsDirectly /\ pc = "done" /\ poll_args.max_attempts = 3
    /\ Len(PollAnswers) = 2
    /\ ~AttemptStatusIn(1, {2, 4, 5, 6}) /\ AttemptStatusIn(2, {2, 4, 5, 6})

\* C13: when all max_attempts attempts are answered with an integer status
\* outside {2,4,5,6}, the poller has returned success with
\* completed_early = False, final_attempt = max_attempts and the status of
\* the last attempt.
C13_ExhaustedBudgetIsSuccess ==
    LET ans == PollAnswers
    IN (/\ Polled /\ poll_args.max_attempts >= 1
        /\ Len(ans) = poll_args.max_attempts
        /\ \A k \in 1..Len(ans) : AnswerStatusIn(ans[k], StatusInts \ {2, 4, 5, 6}))
       => /\ PollReturned
          /\ PollOutcome.success
          /\ "completed_early" \in DOMAIN PollOutcome /\ ~PollOutcome.completed_early
          /\ PollOutcome.final_attempt = poll_args.max_attempts
          /\ PollOutcome.status = AnswerStatus(ans[poll_args.max_attempts])

C13_Witness ==
    /\ PollRunsDirectly /\ pc = "done" /\ poll_args.max_attempts = 3
    /\ Len(PollAnswers) = 3
    /\ AttemptStatusIn(1, {0}) /\ AttemptStatusIn(2, {1}) /\ AttemptStatusIn(3, {1})

\* C14: the poller returns success = False exactly when the status check of
\* attempt max_attempts was made and failed, and that result carries the whole
\* history; a failed check of an earlier attempt is recorded in status_history
\* and followed by the sleep and then the next attempt's request.
C14_FailsOnlyOnLastFailedCheck ==
    LET ev == PollEvents
        ans == SelectSeq(ev, IsAnswer)
    IN /\ PollReturned =>
              /\ ~PollOutcome.success <=>
                     (/\ Len(ans) = poll_args.max_attempts
                      /\ AnswerFailed(ans[poll_args.max_attempts]))
              /\ ~PollOutcome.success =>
                     /\ PollOutcome.status_history = status_history
                     /\ Len(status_history) = poll_args.max_attempts
                     /\ PollOutcome.final_attempt = poll_args.max_attempts
       /\ \A k \in 1..Len(ans) :
              AnswerFailed(ans[k]) =>
                  /\ status_history[k].attempt = k
                  /\ "error" \in DOMAIN status_history[k]
                  /\ status_history[k].error = ans[k].value.error
                  /\ k < poll_args.max_attempts => GoesOnAfter(ev, k)

\* a direct poll whose first check failed and whose last check failed too
C14_Witness ==
    /\ PollRunsDirectly /\ pc = "done" /\ poll_args.max_attempts = 2
    /\ Len(PollAnswers) = 2 /\ AttemptFailed(1) /\ AttemptFailed(2)
    /\ ~result.success

\* attempt k is in the history under the label, and the poll went on after it
\* (sleep, then the next request) or, on the last attempt, returned success
\* with the label as status
RecordedAs(ev, k, label) ==
    /\ Len(status_history) >= k
    /\ status_history[k].attempt = k
    /\ "status" \in DOMAIN status_history[k] /\ status_history[k].status = PyStr(label)
    /\ IF k < poll_args.max_attempts THEN GoesOnAfter(ev, k)
       ELSE /\ PollReturned
            /\ PollOutcome.success
            /\ "status" \in DOMAIN PollOutcome /\ PollOutcome.status = PyStr(label)
            /\ PollOutcome.final_attempt = k

PollRequestAt == { i \in 1..Len(PollEvents) : IsStatusRequest(PollEvents[i]) }

\* C16: the polling loop is strictly sequential: at most one status request
\* is unanswered at any time, every request after the first comes right after
\* a completed sleep that itself comes right after the previous attempt's
\* answer, every request is for the polled task, and the loop issues nothing
\* else for it before the poll ends.
C16_OneCheckStatusOutstanding ==
    Polled =>
        LET span == PollSpan
            ev == SelectSeq(span, IsPollEvent)
            outstanding == Cardinality({ i \in 1..Len(ev) : IsStatusRequest(ev[i]) })
                           - Cardinality({ i \in 1..Len(ev) : IsAnswer(ev[i]) })
        IN /\ outstanding \in {0, 1}
           /\ pc = "poll_check" <=> outstanding = 1
           /\ pc = "poll_check" => inflight = StatusRequest(poll_args.upload_task_id, clock)
           /\ \A i \in 1..Len(ev) :
                 /\ IsStatusRequest(ev[i]) =>
                        /\ ev[i].request.upload_task_id = poll_args.upload_task_id
                        /\ i > 1 => /\ i >= 4
                                    /\ ev[i - 1].ev = "sleep"
                                    /\ IsAnswer(ev[i - 2])
                                    /\ IsStatusRequest(ev[i - 3])
                 /\ IsAnswer(ev[i]) => i > 1 /\ IsStatusRequest(ev[i - 1])
           /\ ev = SubSeq(span, 1, Len(ev))

\* the third attempt of a poll is outstanding
C16_Witness ==
    /\ Polled /\ pc = "poll_check" /\ attempt = 3
    /\ Cardinality(PollRequestAt) = 3 /\ Len(PollAnswers) = 2

PollSleepAt == { i \in 1..Len(PollEvents) : PollEvents[i].ev = "sleep" }

\* C17: between two consecutive status requests of a poll lies exactly one
\* sleep, of interval_minutes * 60 seconds, whatever the earlier attempt's
\* outcome; no sleep precedes the first request or follows the answer on
\* which the poller returns: returning at attempt k, it has slept k - 1 times.
C17_OneFullSleepBetweenAttempts ==
    Polled =>
        LET ev == PollEvents
            requests == { i \in 1..Len(ev) : IsStatusRequest(ev[i]) }
            sleeps == { i \in 1..Len(ev) : ev[i].ev = "sleep" }
            answers == { i \in 1..Len(ev) : IsAnswer(ev[i]) }
        IN /\ \A i \in sleeps : ev[i].seconds = poll_args.interval_minutes * 60
           /\ \A i, j \in requests :
                 (i < j /\ ~\E m \in requests : i < m /\ m < j)
                 => Cardinality({ s \in sleeps : i < s /\ s < j }) = 1
           /\ \A s \in sleeps : \E i, j \in requests : i < s /\ s < j
           /\ PollReturned =>
                 /\ Cardinality(answers) = PollOutcome.final_attempt
                 /\ Cardinality(sleeps) = PollOutcome.final_attempt - 1
           /\ clock = Cardinality(sleeps) * poll_args.interval_minutes * 60

\* a poll returned at its third attempt after a failed and an indeterminate one
C17_Witness ==
    /\ PollRunsDirectly /\ pc = "done" /\ result.final_attempt = 3
    /\ Len(PollAnswers) = 3 /\ AttemptFailed(1) /\ AttemptStatusMissing(2)
    /\ AttemptStatusIn(3, {1})
    /\ Cardinality(PollSleepAt) = 2

\* C18: every result the poller returns has the keys success, status_history,
\* final_attempt and completed_early and one of status and error, and
\* completed_early is True exactly when the returned status is in {2,4,5,6}.
C18_ResultCarriesAllFields ==
    PollReturned =>
        /\ {"success", "status_history", "final_attempt", "completed_early"}
               \subseteq DOMAIN PollOutcome
        /\ "status" \in DOMAIN PollOutcome \/ "error" \in DOMAIN PollOutcome
        /\ PollOutcome.completed_early <=>
               /\ "status" \in DOMAIN PollOutcome
               /\ PollOutcome.status \in { PyInt(n) : n \in {2, 4, 5, 6} }

(***************************************************************************)
(* Claims on get_sts_credentials                                           *)
(***************************************************************************)
StsRuns == fn = "get_sts_credentials"

StsRequestAt == { i \in 1..Len(trace) : trace[i].ev = "request" /\ trace[i].request.op = "sts" }

StsAnswers == SelectSeq(trace, IsAnswer)

StsSleepsDone == SelectSeq(trace, LAMBDA e : e.ev = "sleep")

\* the response is HTTP 200 with the platform-busy code '100004'
AnswersBusy(response) ==
    /\ "exc" \notin DOMAIN response
    /\ response.status_code = 200
    /\ response.body # NotJson
    /\ response.body.t = "dict"
    /\ "c" \in DOMAIN response.body.kv
    /\ response.body.kv.c = PyStr(<<"1", "0", "0", "0", "0", "4">>)

WorkflowReturned == wf # Unset /\ wf.stage = "returned"

\* the answers to the requests of one operation, in order
AnswersTo(op) == SelectSeq(trace, LAMBDA e : IsAnswer(e) /\ e.op = op)

\* what the platform answered to the status requests, initial check and poll
StatusAnswers == AnswersTo("status")

\* the payload of the answer that ended get_sts_credentials
CredentialsPayload == AnswersTo("sts")[Len(AnswersTo("sts"))].response.body.kv.d

\* the credentials request succeeded with every credential the storage
\* upload reads and a non-empty string as task id
CredentialsWithTaskId ==
    /\ AnswersTo("sts") # <<>>
    /\ AnswersOk(AnswersTo("sts")[Len(AnswersTo("sts"))].response)
    /\ CredentialsPayload.t = "dict"
    /\ OssKeys \subseteq DOMAIN CredentialsPayload.kv
    /\ "uploadTaskId" \in DOMAIN CredentialsPayload.kv
    /\ CredentialsPayload.kv.uploadTaskId.t = "str"
    /\ CredentialsPayload.kv.uploadTaskId.s # <<>>

\* every answer the platform gave is one of the round trip: storage 200,
\* parse and submit with c = '0', status 0 or 1 first and 3 from some attempt
\* of the poll on, up to its last
RoundTripAnswers ==
    /\ CredentialsWithTaskId
    /\ \A i \in 1..Len(AnswersTo("oss_put")) :
          /\ "exc" \notin DOMAIN AnswersTo("oss_put")[i].response
          /\ AnswersTo("oss_put")[i].response.status = 200
    /\ \A i \in 1..Len(AnswersTo("parse")) : AnswersOk(AnswersTo("parse")[i].response)
    /\ \A i \in 1..Len(StatusAnswers) :
          /\ \E n \in {0, 1, 3} : AnswersStatus(StatusAnswers[i].response, n)
          /\ i = 1 => ~AnswersStatus(StatusAnswers[i].response, 3)
          /\ \A j \in 1..(i - 1) :
                AnswersStatus(StatusAnswers[j].response, 3)
                => AnswersStatus(StatusAnswers[i].response, 3)
    /\ Len(StatusAnswers) = 1 + workflow_max_poll_attempts
       => AnswersStatus(StatusAnswers[Len(StatusAnswers)].response, 3)
    /\ \A i \in 1..Len(AnswersTo("submit")) : AnswersOk(AnswersTo("submit")[i].response)

\* the requests that name a task: parse, status and submit
TaskRequests ==
    { i \in 1..Len(trace) :
      trace[i].ev = "request" /\ trace[i].request.op \in {"parse", "status", "submit"} }

\* C19: a run of handle_upload_process in which the credentials came with a
\* non-empty task id T and every answer was one of the round trip returns
\* (True, T), having sent a parse request, status requests and one submit
\* request that all carry T.
C19_RoundTripThreadsTaskId ==
    (WorkflowReturned /\ RoundTripAnswers) =>
        /\ result.success
        /\ result.upload_task_id = CredentialsPayload.kv.uploadTaskId
        /\ Cardinality(RequestsTo("parse")) = 1
        /\ Cardinality(RequestsTo("status")) = 1 + workflow_max_poll_attempts
        /\ Cardinality(RequestsTo("submit")) = 1
        /\ \A i \in TaskRequests :
              trace[i].request.upload_task_id = CredentialsPayload.kv.uploadTaskId
        /\ SubmittedItem.uploadTaskId = CredentialsPayload.kv.uploadTaskId

(***************************************************************************)
(* Claims on the endpoint operations and their requests                    *)
(***************************************************************************)
EndpointFunctions == {"check_upload_status", "parse_uploaded_file", "submit_parsed_model"}

\* an endpoint operation was invoked directly
EndpointRuns == fn \in EndpointFunctions

EndpointReturned == EndpointRuns /\ pc = "done"

\* the answer the directly invoked endpoint operation got
EndpointResponse == trace[2].response

IsRequest(e) == e.ev = "request"

EndpointAnswerAt ==
    { i \in 1..Len(trace) :
        IsAnswer(trace[i]) /\ trace[i].op \in {"sts", "parse", "status", "submit"} }

\* the result dict of an operation, as a function from its keys (the
\* credentials operation returns a Python dict, the others a client-built one)
ResultKeys(e) == IF e.op = "sts" THEN DOMAIN e.value.kv ELSE DOMAIN e.value

ResultField(e, key) == IF e.op = "sts" THEN e.value.kv[key] ELSE e.value[key]

EndpointName(e) ==
    CASE e.op = "sts" -> PyStr(STR_sts_credentials)
      [] e.op = "parse" -> "parse_file"
      [] e.op = "status" -> "upload_status"
      [] e.op = "submit" -> "submit_model"

IsHttp(response) == "exc" \notin DOMAIN response

\* HTTP 200 with a JSON envelope whose code is not '0' (for the credentials
\* operation: nor '100004')
AnswersErrorCode(e) ==
    /\ IsHttp(e.response) /\ e.response.status_code = 200
    /\ e.response.body # NotJson /\ e.response.body.t = "dict"
    /\ "c" \in DOMAIN e.response.body.kv
    /\ e.response.body.kv.c # PyStr(<<"0">>)
    /\ e.op = "sts" => e.response.body.kv.c # PyStr(STR_busy)

\* a non-200 answer gives an error result whose error_code is the HTTP status
NonOkStatusIsError ==
    \A i \in EndpointAnswerAt :
        LET e == trace[i] IN
        (IsHttp(e.response) /\ e.response.status_code # 200)
        => /\ {"error", "error_code"} \subseteq ResultKeys(e)
           /\ ResultField(e, "error_code") = PyInt(e.response.status_code)

\* an answer with c = '0' gives a result without an error
OkEnvelopeIsSuccess ==
    \A i \in EndpointAnswerAt :
        AnswersOk(trace[i].response) => "error" \notin ResultKeys(trace[i])

\* an answer with another code gives an error result with that code, the
\* envelope's message and the endpoint name; get_sts_credentials returns it
\* at once
ErrorCodeIsError ==
    \A i \in EndpointAnswerAt :
        LET e == trace[i] IN
        AnswersErrorCode(e)
        => /\ {"error", "error_code", "endpoint"} \subseteq ResultKeys(e)
           /\ ResultField(e, "error_code") = e.response.body.kv.c
           /\ "m" \in DOMAIN e.response.body.kv
                  => ResultField(e, "error") = e.response.body.kv.m
           /\ ResultField(e, "endpoint") = EndpointName(e)
           /\ e.op = "sts" => /\ i = Len(trace)
                              /\ pc = "done"
                              /\ fn = "get_sts_credentials" => result = e.value

\* C22: for the credentials, parse, status and submit operations, a non-200
\* answer gives an error result with error_code = the HTTP status, an answer
\* with c = '0' gives a result without an error, and an answer with any other
\* c (credentials: other than '100004') gives an error result with
\* error_code = c, error = m and the endpoint name, which get_sts_credentials
\* returns on that attempt with no further request or sleep.
C22_EnvelopeDecidesResult ==
    /\ NonOkStatusIsError
    /\ OkEnvelopeIsSuccess
    /\ ErrorCodeIsError

\* C23: whichever of the three payload shapes {status: s}, {data: {status: s}}
\* and {data: [{status: s}, ...]} carries the status integer s, as an int or
\* as its decimal string, the poller records s for that attempt and the
\* orchestrator takes s as the current status of its initial check.
C23_SameStatusFromEveryShape ==
    /\ LET ans == PollAnswers
       IN \A k \in 1..Len(ans) : \A n \in StatusInts :
              AnswerStatusIn(ans[k], {n})
              => /\ Len(status_history) >= k
                 /\ "status" \in DOMAIN status_history[k]
                 /\ status_history[k].status = PyInt(n)
    /\ \A n \in StatusInts :
           InitialStatusIn({n})
           => /\ SafeSubmitCurrentStatus(status_result) = PyInt(n)
              /\ (pc = "done" /\ "current_status" \in DOMAIN result)
                     => result.current_status = PyInt(n)
              /\ (pc = "done" /\ n \in {0, 1} /\ args.auto_poll) => Polled
              /\ (pc = "done" /\ n \in {3, 5}) => NumSubmitCalls = 1

\* a poll answered 1 as a string under 'data', then 2 in a list under 'data'
C23_Witness ==
    /\ PollRunsDirectly /\ pc = "done" /\ Len(PollAnswers) = 2
    /\ PollAnswers[1].response = OkResponse(ShapedPayload("data", PyStr(<<"1">>)))
    /\ PollAnswers[2].response = OkResponse(ShapedPayload("list", PyInt(2)))
    /\ result.status = PyInt(2)

\* the caller of the running function passed no pos
NoPosSupplied == args # Unset /\ "pos" \notin DOMAIN args

\* C24: the body of every submit request is a list of one item that carries
\* the given uploadTaskId and location = 1; when submit_parsed_model is called
\* without pos the item has no pos field: only the safe-submit path sends
\* pos = 99 for a caller that supplies none.
C24_SubmitBodyOmitsUnsetPos ==
    \A i \in RequestsTo("submit") :
        LET body == trace[i].request.body IN
        /\ Len(body) = 1
        /\ body[1].uploadTaskId = args.upload_task_id
        /\ body[1].location = 1
        /\ (fn = "submit_parsed_model" /\ NoPosSupplied) => "pos" \notin DOMAIN body[1]
        /\ ("pos" \in DOMAIN body[1] /\ body[1].pos = 99 /\ NoPosSupplied)
               => fn = "safe_submit_parsed_model"

\* the part of C24 that does not concern pos: one item, the given task id,
\* location = 1
SubmitBodyIsOneItem ==
    \A i \in RequestsTo("submit") :
        LET body == trace[i].request.body IN
        /\ Len(body) = 1
        /\ body[1].uploadTaskId = args.upload_task_id
        /\ body[1].location = 1
        /\ ~NoPosSupplied => body[1].pos = args.pos

\* the status observation returned with the submission's result
SubmissionContext == result.status_check_result

\* C25: when safe_submit_parsed_model has sent the submit request and
\* returned, its result carries the status observation that permitted the
\* submission: a status-check result whose status is 3 or 5, also when the
\* submission followed auto-polling from an initial status 0 or 1.
C25_ResultCarriesPermittingStatus ==
    (SafeSubmitReturned /\ NumSubmitCalls = 1)
    => /\ "status_check_result" \in DOMAIN result
       /\ InInts(SafeSubmitCurrentStatus(SubmissionContext), {3, 5})

\* the same for submissions that follow the initial check directly, where the
\* initial status is 3 or 5
DirectSubmissionCarriesStatus ==
    (SafeSubmitReturned /\ NumSubmitCalls = 1 /\ ~Polled /\ InitialStatusIn({3, 5}))
    => /\ "status_check_result" \in DOMAIN result
       /\ InInts(SafeSubmitCurrentStatus(SubmissionContext), {3, 5})

\* the parameters a request carries for authentication: in the query string,
\* or in the form body of the parse request
AuthOf(request) == IF request.op = "parse" THEN request.data ELSE request.params

\* the signed requests sent so far
SignedRequestAt ==
    { i \in 1..Len(trace) :
        IsRequest(trace[i]) /\ trace[i].request.op \in {"sts", "parse", "status", "submit"} }

OtherValue == PyStr(<<"o", "t", "h", "e", "r">>)

\* the parameters of a request that are sent and handed to generate_signature
SignedParams(request) == DOMAIN AuthOf(request) \ {"sign"}

\* the signature changes when parameter key of the request gets another value
SignatureDependsOn(request, key) ==
    generate_signature([AuthOf(request) EXCEPT ![key] = OtherValue]) # AuthOf(request).sign

\* C27: with a collision-free digest, giving another value to any one of the
\* parameters a request is signed and sent with (appkey, timestamp, file_name,
\* upload_task_id) changes the signature generate_signature computes.
C27_SignatureCoversEveryParameter ==
    \A i \in SignedRequestAt :
        \A key \in SignedParams(trace[i].request) :
            SignatureDependsOn(trace[i].request, key)

\* the part of C27 that holds: the signature changes with appkey and timestamp
SignatureCoversKeyAndTime ==
    \A i \in SignedRequestAt :
        /\ SignatureDependsOn(trace[i].request, "appkey")
        /\ SignatureDependsOn(trace[i].request, "timestamp")

AuthKeys == {"appkey", "timestamp", "sign"}

\* the request carries appkey, timestamp and sign in its query string
AuthInQuery(request) ==
    /\ "params" \in DOMAIN request
    /\ AuthKeys \subseteq DOMAIN request.params

\* C28: every request the client sends to the platform (credentials GET,
\* parse POST, status GET, submit POST) carries appkey, timestamp and sign as
\* URL query parameters, the POST requests included.
C28_AuthInQueryOfEveryRequest ==
    \A i \in SignedRequestAt : AuthInQuery(trace[i].request)

\* the part of C28 that holds: every request carries the three parameters,
\* and every request but the parse POST carries them in the query string
AuthCarriedByEveryRequest ==
    \A i \in SignedRequestAt :
        /\ AuthKeys \subseteq DOMAIN AuthOf(trace[i].request)
        /\ trace[i].request.op # "parse" => AuthInQuery(trace[i].request)

\* C29: when the poller is run by safe_submit_parsed_model and attempt
\* k < max_attempts is the first answered with status 3, that answer is the
\* last thing the poll does: no status request and no sleep follow it, and
\* the submit request is sent next.
C29_ReadyEndsPolling ==
    (SafeSubmitRuns /\ Polled) =>
        LET ev == PollEvents
            ans == SelectSeq(ev, IsAnswer)
        IN \A k \in 1..Len(ans) :
            (/\ k < poll_args.max_attempts
             /\ AnswerStatusIn(ans[k], {3})
             /\ \A j \in 1..(k - 1) : ~AnswerStatusIn(ans[j], {3}))
            => /\ Len(ans) = k
               /\ ev[Len(ev)] = ans[k]
               /\ NumSleeps = k - 1
               /\ NumSubmitCalls = 1

\* what holds instead: a status 3 on the last attempt ends the poll with the
\* submit request, and one on an earlier attempt is followed by the sleep and
\* the next status request
ReadyIsPolledToTheEnd ==
    (SafeSubmitRuns /\ Polled) =>
        LET ev == PollEvents
            ans == SelectSeq(ev, IsAnswer)
        IN \A k \in 1..Len(ans) :
            AnswerStatusIn(ans[k], {3})
            => IF k < poll_args.max_attempts
               THEN GoesOnAfter(ev, k)
               ELSE NumSubmitCalls = 1 /\ NumSleeps = k - 1

\* handle_upload_process returned (True, task id)
WorkflowCompleted == WorkflowReturned /\ result.success

\* SubmitModel was invoked and returned a result without an error
SubmitSucceeded ==
    \E i \in 1..Len(trace) :
        /\ IsAnswer(trace[i]) /\ trace[i].op = "submit"
        /\ "error" \notin DOMAIN trace[i].value

\* some CheckStatus of the run reported one of the statuses ns
StatusReported(ns) ==
    \E i \in 1..Len(trace) :
        /\ IsAnswer(trace[i]) /\ trace[i].op = "status"
        /\ \E n \in ns : AnswersStatus(trace[i].response, n)

\* C30: handle_upload_process returns (True, task id) only if during the run
\* SubmitModel was invoked and returned success, or CheckStatus reported
\* status 4 (already submitted).
C30_CompletionOnlyAfterSubmission ==
    WorkflowCompleted => (SubmitSucceeded \/ StatusReported({4}))

\* what holds instead: completion follows a successful SubmitModel or a
\* status 2, 4, 5 or 6 reported by CheckStatus
CompletionAfterSubmitOrTerminalStatus ==
    WorkflowCompleted => (SubmitSucceeded \/ StatusReported({2, 4, 5, 6}))

(***************************************************************************)
(* Claims on the bounds of the orchestrator and the poller                 *)
(***************************************************************************)
\* the initial status check was answered with a status that int() converts to
\* one of ns (an int, its decimal string with or without blanks, or a bool)
InitialStatusConvertsTo(ns) ==
    /\ InitialAnswered
    /\ AnswersOk(InitialResponse)
    /\ CarriesStatus(InitialResponse.body.kv.d)
    /\ InInts(IntOrNone(StatusField(InitialResponse.body.kv.d)), ns)

\* C31: one run of safe_submit_parsed_model enters the poller at most once,
\* and only after an initial status 0 or 1 with auto_poll set: once the poller
\* has returned no status request follows, the run sends at most
\* 1 + max_poll_attempts status requests, of which at most max_poll_attempts
\* after the initial one, and every one of them names the caller's task id.
C31_PollsAtMostOnce ==
    SafeSubmitRuns =>
        /\ Polled => /\ InitialStatusConvertsTo({0, 1})
                     /\ args.auto_poll
                     /\ poll_args.upload_task_id = args.upload_task_id
                     /\ poll_args.max_attempts = args.max_poll_attempts
        /\ (InitialAnswered /\ ~(InitialStatusConvertsTo({0, 1}) /\ args.auto_poll)) => NumStatusCalls = 1
        /\ NumStatusCalls <= 1 + args.max_poll_attempts
        /\ poll_result # Unset => NumStatusCalls = 1 + Len(poll_result.status_history)
        /\ \A i \in RequestsTo("status") :
               /\ trace[i].request.upload_task_id = args.upload_task_id
               /\ trace[i].request.params.upload_task_id = args.upload_task_id

\* a run that polled its whole budget of three attempts and returned
C31_Witness ==
    /\ SafeSubmitReturned /\ Polled /\ args.max_poll_attempts = 3
    /\ NumStatusCalls = 4
    /\ poll_result # Unset

\* every request of the program carries timeout=30 and time.sleep returns:
\* a step that can be taken is eventually taken
SpecFair == Spec /\ WF_vars(Next)

\* the poller runs with a budget of at least one attempt
PollHasBudget == Polled /\ poll_args.max_attempts >= 1

\* the poller stays within its budget of status calls and sleeps
PollStaysWithinBudget ==
    PollHasBudget =>
        LET events == PollEvents IN
        /\ Len(SelectSeq(events, IsStatusRequest)) <= poll_args.max_attempts
        /\ Len(SelectSeq(events, LAMBDA e : e.ev = "sleep")) <= poll_args.max_attempts - 1
        /\ PollReturned => PollOutcome.final_attempt <= poll_args.max_attempts

\* the poller is over: it returned a result or an exception left it
PollEnded ==
    \/ PollReturned
    \/ Polled /\ pc \in {"done", "raised"}

\* C32: for every max_attempts >= 1 and every sequence of CheckStatus
\* outcomes, poll_upload_status_until_complete makes at most max_attempts
\* status calls and max_attempts - 1 sleeps, and terminates with a result
\* whose final_attempt is at most max_attempts.
C32_PollTerminatesWithResult ==
    /\ [](PollStaysWithinBudget)
    /\ [](PollHasBudget => <>PollReturned)

\* what holds: the poller stays within its budget and always ends, by a
\* result or by an exception
PollEndsWithinBudget ==
    /\ [](PollStaysWithinBudget)
    /\ [](PollHasBudget => <>PollEnded)

\* the sequence h continues the sequence g
IsPrefix(g, h) == Len(g) <= Len(h) /\ SubSeq(h, 1, Len(g)) = g

\* the returned history is the numbered log of the status calls made
HistoryLogsEveryCall ==
    PollReturned =>
        LET h == PollOutcome.status_history
            requests == SelectSeq(PollEvents, IsStatusRequest)
        IN /\ Len(h) = PollOutcome.final_attempt
           /\ Len(h) = Len(requests)
           /\ \A i \in 1..Len(h) : h[i].attempt = i
           /\ h = status_history

\* C33: at every return of poll_upload_status_until_complete the
\* status_history has exactly final_attempt entries, one per CheckStatus call
\* made, the i-th entry has attempt = i, and an entry once appended is never
\* modified or removed.
C33_HistoryIsAppendOnlyLog ==
    /\ [](HistoryLogsEveryCall)
    /\ [][IsPrefix(status_history, status_history')]_vars

\* a poll returned after three attempts: a failed check, an indeterminate one
\* and one with a status
C33_Witness ==
    /\ PollReturned
    /\ Len(PollOutcome.status_history) = 3
    /\ "error" \in DOMAIN PollOutcome.status_history[1]
    /\ "error" \notin DOMAIN PollOutcome.status_history[3]

(***************************************************************************)
(* Claims on the order of the steps of handle_upload_process               *)
(***************************************************************************)
StepOrder ==
    <<"get_sts_credentials", "upload_to_oss", "parse_uploaded_file",
      "safe_submit_parsed_model">>

\* the step named name returned the success result value
StepSucceeded(name, value) ==
    CASE name = "get_sts_credentials" ->
             value # PyNone /\ value.t = "dict" /\ "error" \notin DOMAIN value.kv
      [] name = "upload_to_oss" -> value.success
      [] OTHER -> "error" \notin DOMAIN value

\* a step of the workflow returned a failure
SomeStepFailed ==
    \E k \in 1..Len(wf.returned) : ~StepSucceeded(StepOrder[k], wf.returned[k])

ReturnsFalseNone == result = [success |-> FALSE, upload_task_id |-> PyNone]

\* C34: handle_upload_process invokes get_sts_credentials, upload_to_oss,
\* parse_uploaded_file and safe_submit_parsed_model in that order, each at most
\* once, and a step only if the preceding step returned a success result;
\* after a failed step it returns (False, None).
C34_StepsInOrderAfterSuccess ==
    wf # Unset =>
        /\ IsPrefix(wf.invoked, StepOrder)
        /\ \A k \in 2..Len(wf.invoked) : StepSucceeded(StepOrder[k - 1], wf.returned[k - 1])
        /\ (WorkflowReturned /\ SomeStepFailed) => ReturnsFalseNone

\* what holds: the steps come in order, each at most once; upload_to_oss
\* follows every credentials result that is not empty, the later steps follow
\* a success only; after a failed step the function returns (False, None)
StepsInOrderAfterNonEmptyCredentials ==
    wf # Unset =>
        /\ IsPrefix(wf.invoked, StepOrder)
        /\ Len(wf.returned) <= Len(wf.invoked)
        /\ Len(wf.invoked) >= 2 => Truthy(wf.returned[1])
        /\ \A k \in 3..Len(wf.invoked) : StepSucceeded(StepOrder[k - 1], wf.returned[k - 1])
        /\ (WorkflowReturned /\ SomeStepFailed) => ReturnsFalseNone

\* upload_to_oss was invoked with the error result of get_sts_credentials
StepAfterFailedCredentials ==
    /\ WorkflowReturned
    /\ wf.invoked = <<"get_sts_credentials", "upload_to_oss">>
    /\ ~StepSucceeded("get_sts_credentials", wf.returned[1])
    /\ ReturnsFalseNone

(***************************************************************************)
(* Claims on the manual workflow                                           *)
(***************************************************************************)
\* the buttons that run the operation of step k
StepButtons(k) ==
    CASE k = 1 -> {"get_sts_credentials"}
      [] k = 2 -> {"upload_to_oss"}
      [] k = 3 -> {"parse_uploaded_file"}
      [] k = 4 -> {"submit_parsed_model", "safe_submit_parsed_model"}
      [] OTHER -> {}

\* the value an operation returned is an error result
ErrorResult(r) ==
    IF "kv" \in DOMAIN r THEN "error" \in DOMAIN r.kv ELSE "error" \in DOMAIN r

\* the last click ran the operation of step k, and the operation has returned
StepOperationReturned(k) ==
    /\ run.button \in StepButtons(k)
    /\ run.outcome # Unset
    /\ pc = "idle"

\* C35: in the manual workflow current_step advances from k to k+1 (k in
\* 1..4) only when step k's operation has just returned a non-error result;
\* when the operation returns an error, current_step, workflow_status and
\* upload_task_id are left unchanged, so that the same step can be retried.
C35_AdvanceOnlyOnSuccess ==
    [][LET k == session.current_step
           returned == /\ run'.button \in StepButtons(k)
                       /\ run'.outcome # Unset
                       /\ pc' = "idle"
       IN /\ (k \in 1..4 /\ session'.current_step = k + 1)
              => returned /\ ~ErrorResult(run'.outcome)
          /\ (returned /\ ErrorResult(run'.outcome))
              => /\ session'.current_step = k
                 /\ session'.workflow_status = session.workflow_status
                 /\ session'.upload_task_id = session.upload_task_id]_vars

\* a safe submit failed at step 4 and the session stayed at step 4
C35_Witness ==
    /\ session.current_step = 4
    /\ run.button = "safe_submit_parsed_model"
    /\ StepOperationReturned(4)
    /\ ErrorResult(run.outcome)
    /\ session.workflow_status.submission = Unset

\* C36: in every reachable state of the manual workflow, current_step >= 2
\* implies that workflow_status holds the credentials result, current_step >= 3
\* that it holds the storage-upload result, and current_step >= 4 that
\* upload_task_id is non-empty and equals the uploadTaskId of the stored
\* credentials.
C36_StepImpliesStoredResults ==
    LET ws == session.workflow_status IN
    /\ session.current_step >= 2 => ws.sts # Unset /\ ~ErrorResult(ws.sts)
    /\ session.current_step >= 3 =>
           /\ ws.oss_upload # Unset
           /\ ws.oss_upload.success
           /\ ws.oss_upload.oss_path = ws.sts.kv.filePath
    /\ session.current_step >= 4 =>
           /\ NonEmptyId(session.upload_task_id)
           /\ session.upload_task_id = StoredTaskId

\* the workflow is complete for the task T2
C36_Witness ==
    /\ session.current_step = 5
    /\ session.upload_task_id = PyStr(<<"T", "2">>)
    /\ session.workflow_status.submission # Unset

\* C37: whenever the session's upload_task_id is non-null it is the task id
\* minted by the credentials call of the current workflow run; starting a new
\* workflow never leaves the task id of an earlier run to the status monitor.
C37_TaskIdIsOfCurrentRun ==
    session.upload_task_id # PyNone => session.upload_task_id = run.minted

\* what holds: from step 4 on the session's task id is the one minted in the
\* current run, and both reset buttons clear it
TaskIdIsOfCurrentRunFromStep4 ==
    /\ session.current_step >= 4 => session.upload_task_id = run.minted
    /\ session.current_step = 0 => session.upload_task_id = PyNone

\* the status monitor checks a task id although the current run has no
\* credentials yet
MonitorChecksEarlierTask ==
    /\ run.button = "check_upload_status"
    /\ run.minted = PyNone
    /\ session.current_step = 1
    /\ run.outcome.request.upload_task_id = session.upload_task_id

(***************************************************************************)
(* C38: check_upload_status of the production client                       *)
(***************************************************************************)
ProductionStatusReturned == pc = "done" /\ fn = "production.check_upload_status"

\* the answers the platform gave to the status requests of the production client
ProductionStatusAnswers ==
    { trace[i].response : i \in { j \in 1..Len(trace) :
          trace[j].ev = "result" /\ trace[j].op = "production_status" } }

\* C38: check_upload_status of the production client returns the remote
\* payload d whenever the platform answered HTTP 200 with envelope code '0',
\* and returns an {'error': ...} result only when the platform's answer had
\* another HTTP status or another code, or the transport raised.
C38_ProductionStatusReturnsPayload ==
    ProductionStatusReturned =>
        /\ \A response \in ProductionStatusAnswers :
               AnswersOk(response) => result = response.body.kv.d
        /\ ErrorResult(result) =>
               \E response \in ProductionStatusAnswers : ~AnswersOk(response)

\* what holds: signing the parameters raises KeyError('appsecret'), so the
\* call sends no request and returns {'error': "'appsecret'"} for every task id
ProductionStatusSendsNothing ==
    ProductionStatusReturned =>
        /\ trace = <<>>
        /\ result = PyDict([error |-> KeyErrorText("appsecret")])

(***************************************************************************)
(* C39: the app secret is not among the transmitted parameters             *)
(***************************************************************************)
\* the requests either client has sent so far
RequestsOfClients == { trace[i].request : i \in { j \in 1..Len(trace) : IsRequest(trace[j]) } }

\* the parameters a request transmits: the form of a parse request, the
\* query of every other one
TransmittedParams(request) == IF "data" \in DOMAIN request THEN request.data ELSE request.params

\* the parameters hold the app secret, under its own name or as a value
CarriesSecret(params) ==
    \/ "appsecret" \in DOMAIN params
    \/ \E k \in DOMAIN params : params[k] = PyStr(app_secret)

\* C39: no request issued by either client (coohom_api, coohom_api_production)
\* transmits the caller's app secret among its parameters; the secret reaches
\* the request only through sign = md5(appsecret + appkey + timestamp).
C39_SecretOnlyInSignature ==
    \A request \in RequestsOfClients :
        /\ ~CarriesSecret(TransmittedParams(request))
        /\ "body" \in DOMAIN request => "appsecret" \notin DOMAIN request.body[1]
        /\ TransmittedParams(request).sign
             = md5(app_secret \o TransmittedParams(request).appkey.s
                              \o TransmittedParams(request).timestamp.s)

\* what holds: the requests of coohom_api never carry the secret, and every
\* request of either client is signed with it
SecretOnlyInSignatureOfCoohomApi ==
    \A request \in RequestsOfClients :
        /\ request.op # "production_sts" => ~CarriesSecret(TransmittedParams(request))
        /\ TransmittedParams(request).sign
             = md5(app_secret \o TransmittedParams(request).appkey.s
                              \o TransmittedParams(request).timestamp.s)

\* the production credentials request was sent with appsecret in its query
ProductionStsSendsSecret ==
    \E request \in RequestsOfClients :
        /\ request.op = "production_sts"
        /\ request.params.appsecret = PyStr(app_secret)

=============================================================================
